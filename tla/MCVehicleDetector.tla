------------------------- MODULE MCVehicleDetector -------------------------
(***************************************************************************)
(* An instance of VehicleDetector for TLC: every parameter is set to       *)
(* values that do not pass, some to values that do.                        *)
(***************************************************************************)
EXTENDS VehicleDetector

Default ==
  [target_frame_id |-> "map", voxel_leaf_size |-> 1, roi_min_x |-> 1,
   roi_max_x |-> 2, ground_distance_threshold |-> 1, cluster_tolerance |-> 1,
   cluster_min_size |-> 1, cluster_max_size |-> 3, vehicle_min_length |-> 0,
   vehicle_max_length |-> 1, vehicle_min_width |-> 0, vehicle_max_width |-> 1,
   vehicle_min_height |-> 0, vehicle_max_height |-> 1]

\* Longer vehicles in coarser clouds, above them nothing that is cropped; what
\* the constructor refuses.
MCInitial ==
  {Default,
   [Default EXCEPT !.voxel_leaf_size = 2, !.cluster_tolerance = 2,
                   !.roi_max_x = NaN, !.vehicle_max_length = 2],
   [Default EXCEPT !.roi_max_x = 1]}

\* A car across the region, its ground, and a point that lies outside; a thin
\* thing that in a coarse cloud is too high for a car.
MCClouds ==
  {{<<1, 0, 2>>, <<1, 1, 2>>, <<1, 2, 2>>, <<2, 0, 0>>, <<3, 0, 0>>},
   {<<1, 0, 0>>, <<1, 0, 2>>}}

\* 5 is a size beyond an int: it becomes 1.
MCUpdates ==
  ({"target_frame_id"} \X FrameIds)
  \cup ({"voxel_leaf_size", "ground_distance_threshold", "cluster_tolerance"}
          \X {0, NaN})
  \cup ({"roi_max_x"} \X {1})
  \cup ({"cluster_min_size"} \X {0, 5})
  \cup ({"cluster_max_size"} \X {5})
  \cup ({"vehicle_min_length", "vehicle_min_height"} \X {2})
=============================================================================
