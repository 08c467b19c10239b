------------------------- MODULE MCParameterBridge -------------------------
(***************************************************************************)
(* An instance of ParameterBridge: two requests, GET or POST, against a   *)
(* detector whose region can be moved only in the right order.             *)
(***************************************************************************)
EXTENDS ParameterBridge, MCVehicleDetector

MCOrder ==
  <<"cluster_max_size", "cluster_min_size", "cluster_tolerance",
    "ground_distance_threshold", "roi_max_x", "roi_min_x", "target_frame_id",
    "typo", "vehicle_max_height", "vehicle_max_length", "vehicle_max_width",
    "vehicle_min_height", "vehicle_min_length", "vehicle_min_width",
    "voxel_leaf_size">>

\* The region moved down, where the order of the keys is the wrong one; numbers
\* that are no int64, a null, a bool and a text that is refused; a name that is
\* not declared.
MCBodies ==
  {[roi_min_x |-> <<"unsigned", 0>>, roi_max_x |-> <<"float", 1>>],
   [cluster_max_size |-> <<"float", 3>>, cluster_min_size |-> <<"unsigned", 6>>,
    roi_max_x |-> <<"null", 0>>, roi_min_x |-> <<"bool", FALSE>>,
    target_frame_id |-> <<"string", "">>],
   [typo |-> <<"unsigned", 1>>, roi_min_x |-> <<"unsigned", 0>>],
   <<>>}

FewInitial == {Default, [Default EXCEPT !.roi_max_x = 1]}

\* Between two requests, another client sets a bound to NaN.
FewUpdates == {<<"roi_min_x", NaN>>}
=============================================================================
