------------------------ MODULE PointCloudProcessing ------------------------
(***************************************************************************)
(* point_cloud_processing.cpp: the steps from a cloud to the boxes of its  *)
(* vehicles.  A cloud is a set of points with whole coordinates; what PCL  *)
(* computes is described by its result, the level plane that RANSAC finds, *)
(* if any, by all the results it can have.                                 *)
(***************************************************************************)
EXTENDS Integers, FiniteSetsExt

CONSTANTS
  NaN,
  IntRange   \* the number of values of an int; small, so that it is exceeded

ASSUME IntRangeAssumption == IntRange \in Nat \ {0}

Point == Int \X Int \X Int

\* Comparisons of doubles: every one with a NaN is false.
Greater(a, b) == a # NaN /\ b # NaN /\ a > b
GreaterEq(a, b) == a # NaN /\ b # NaN /\ a >= b

-----------------------------------------------------------------------------
(***************************************************************************)
(* voxel_downsample, crop_roi, remove_ground_plane                         *)
(***************************************************************************)
Voxel(p, leaf) == [i \in 1 .. 3 |-> p[i] \div leaf]

Centroid(points) ==
  LET Mean(i) ==
        MapThenSumSet(LAMBDA p : p[i], points) \div Cardinality(points)
  IN  <<Mean(1), Mean(2), Mean(3)>>

\* Each voxel that is not empty becomes the centroid of its points.
VoxelDownsample(cloud, leaf) ==
  IF Greater(leaf, 0)
  THEN {Centroid({q \in cloud : Voxel(q, leaf) = Voxel(p, leaf)}) : p \in cloud}
  ELSE cloud

\* CropBox leaves out the points that are below or above: none for a NaN.
CropRoi(cloud, min_x, max_x) ==
  {p \in cloud : ~Greater(min_x, p[1]) /\ ~Greater(p[1], max_x)}

\* The points near a level plane; RANSAC may also find no plane at all, and
\* does not look for one through fewer than three points.
PlaneInliers(cloud, threshold) ==
  {{}} \cup
  {{p \in cloud : GreaterEq(threshold, q[3] - p[3]) /\
                  GreaterEq(threshold, p[3] - q[3])} :
     q \in {r \in cloud : Cardinality(cloud) >= 3}}

\* What remove_ground_plane may leave for clustering.
NonGround(cloud, threshold, skip_threshold) ==
  IF Cardinality(cloud) < skip_threshold
  THEN {cloud}
  ELSE {cloud \ inliers : inliers \in PlaneInliers(cloud, threshold)}

-----------------------------------------------------------------------------
(***************************************************************************)
(* extract_clusters                                                        *)
(***************************************************************************)
Near(p, q, tolerance) ==
  (p[1] - q[1]) * (p[1] - q[1]) + (p[2] - q[2]) * (p[2] - q[2])
    + (p[3] - q[3]) * (p[3] - q[3]) <= tolerance * tolerance

\* A part of the cloud that no other point of it is near to.
Closed(part, cloud, tolerance) ==
  \A p \in part, q \in cloud \ part : ~Near(p, q, tolerance)

\* The parts that grow from one point over its neighbours: the smallest closed
\* ones.
Components(cloud, tolerance) ==
  LET closed == {part \in SUBSET cloud \ {{}} : Closed(part, cloud, tolerance)}
  IN  {part \in closed : \A less \in closed : less \subseteq part => less = part}

\* static_cast<int>, then the unsigned index type of PCL.
ClusterSize(size) == size % IntRange

ExtractClusters(cloud, tolerance, min_size, max_size) ==
  {c \in Components(cloud, tolerance) :
     /\ Cardinality(c) >= ClusterSize(min_size)
     /\ Cardinality(c) <= ClusterSize(max_size)}

-----------------------------------------------------------------------------
(***************************************************************************)
(* compute_aabb, compute_box_dimensions, is_passenger_vehicle              *)
(***************************************************************************)
Extent(cluster, i) == Max({p[i] : p \in cluster}) - Min({p[i] : p \in cluster})

\* Slip: the length is the extent along x.
ExtentAlongX(cluster) == Extent(cluster, 1)

\* Length and width of a box, whichever way it lies.
BoxLength(cluster) == Max({Extent(cluster, 1), Extent(cluster, 2)})
BoxWidth(cluster) == Min({Extent(cluster, 1), Extent(cluster, 2)})

Within(size, min, max) == GreaterEq(size, min) /\ GreaterEq(max, size)

\* Slip: any height will do.
IsPassengerVehicleOfAnyHeight(cluster, limits) ==
  /\ Within(BoxLength(cluster), limits.vehicle_min_length, limits.vehicle_max_length)
  /\ Within(BoxWidth(cluster), limits.vehicle_min_width, limits.vehicle_max_width)

\* The limits are six of the settings of the detector.
IsPassengerVehicle(cluster, limits) ==
  /\ Within(BoxLength(cluster), limits.vehicle_min_length, limits.vehicle_max_length)
  /\ Within(BoxWidth(cluster), limits.vehicle_min_width, limits.vehicle_max_width)
  /\ Within(Extent(cluster, 3), limits.vehicle_min_height, limits.vehicle_max_height)
=============================================================================
