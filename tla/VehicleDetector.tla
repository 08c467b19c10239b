-------------------------- MODULE VehicleDetector --------------------------
(***************************************************************************)
(* vehicle_detector_node.cpp: parameters that can be set while the node    *)
(* runs, and the outputs of each frame.  The node spins one thread, so a   *)
(* frame and an update never overlap; what others see in between are the   *)
(* separate publications of a frame and, in an update of several           *)
(* parameters, the single ones, which the parameter service sets one after *)
(* the other.                                                              *)
(*                                                                         *)
(* The region along x stands for its three axes.  What a frame computes    *)
(* from its cloud is that of PointCloudProcessing; of the stamps and texts *)
(* of a message only the frame_id is kept, and a box is the cluster it is  *)
(* drawn around.                                                           *)
(***************************************************************************)
EXTENDS PointCloudProcessing

CONSTANTS
  FrameIds,           \* the texts of target_frame_id, "" among them
  InputFrame,         \* the frame_id of the clouds
  Doubles,            \* doubles that are numbers
  Sizes,              \* the int64 values of the cluster sizes
  Clouds,             \* the clouds that may arrive, once they are transformed
  InitialParameters,  \* the parameter files the node may be started with
  Updates             \* <<name, value>> that ros2 param set and the like may set

Parameters ==
  [target_frame_id : FrameIds, voxel_leaf_size : Doubles \cup {NaN},
   roi_min_x : Doubles \cup {NaN}, roi_max_x : Doubles \cup {NaN},
   ground_distance_threshold : Doubles \cup {NaN},
   cluster_tolerance : Doubles \cup {NaN},
   cluster_min_size : Sizes, cluster_max_size : Sizes,
   vehicle_min_length : Doubles \cup {NaN},
   vehicle_max_length : Doubles \cup {NaN},
   vehicle_min_width : Doubles \cup {NaN},
   vehicle_max_width : Doubles \cup {NaN},
   vehicle_min_height : Doubles \cup {NaN},
   vehicle_max_height : Doubles \cup {NaN}]

DoubleNames ==
  {"voxel_leaf_size", "roi_min_x", "roi_max_x", "ground_distance_threshold",
   "cluster_tolerance", "vehicle_min_length", "vehicle_max_length",
   "vehicle_min_width", "vehicle_max_width", "vehicle_min_height",
   "vehicle_max_height"}
SizeNames == {"cluster_min_size", "cluster_max_size"}
ParameterNames == {"target_frame_id"} \cup DoubleNames \cup SizeNames

\* rclcpp rejects values of any other type before the node's callback runs.
ValuesOf(name) ==
  IF name = "target_frame_id" THEN FrameIds
  ELSE IF name \in SizeNames THEN Sizes ELSE Doubles \cup {NaN}

ASSUME DetectorAssumption ==
  /\ Doubles \subseteq Int
  /\ NaN \notin Doubles
  /\ InputFrame \in FrameIds
  /\ Sizes \subseteq Int
  /\ Clouds \subseteq SUBSET Point
  /\ \A cloud \in Clouds : IsFiniteSet(cloud)
  /\ InitialParameters \subseteq Parameters
  /\ \A u \in Updates : u[1] \in ParameterNames /\ u[2] \in ValuesOf(u[1])

VARIABLES
  node,             \* "down", "idle", "serving" its parameter services, or
                    \* with "detections" or "markers" still to publish
  parameters,       \* the values rclcpp holds and reports
  snapshot,         \* snapshot_
  last_frame,       \* history: "none" until a frame is complete, then what
                    \* became of the last one
  snap,             \* snap, the local of on_cloud; history: it is kept
  vehicles,         \* the boxes of the frame at work, a local of on_cloud
  cluster_markers,  \* what a viewer shows of cluster_markers_topic
  detections,       \* the last array on raw_detections_topic
  vehicle_markers   \* what a viewer shows of vehicle_markers_topic

settingVars == <<parameters, snapshot>>
outputVars == <<cluster_markers, detections, vehicle_markers>>
frameVars == <<last_frame, snap, vehicles, outputVars>>
detectorVars == <<node, settingVars, frameVars>>

-----------------------------------------------------------------------------
(***************************************************************************)
(* Parameters                                                              *)
(***************************************************************************)

\* validate_non_empty_string, validate_positive_double, validate_int_min
NonEmptyString(value) == value # ""
PositiveDouble(value) == Greater(value, 0)
IntMin(value, min) == value >= min

ChecksAlone(c) ==
  /\ NonEmptyString(c.target_frame_id)
  /\ PositiveDouble(c.voxel_leaf_size)
  /\ PositiveDouble(c.ground_distance_threshold)
  /\ PositiveDouble(c.cluster_tolerance)
  /\ IntMin(c.cluster_min_size, 1)

\* Slip: each parameter is checked for itself.
AcceptsEachAlone(c) == ChecksAlone(c) /\ IntMin(c.cluster_max_size, 1)

\* The checks of enforce_initial_parameters and on_parameter_change.  The
\* sizes go through size_t and back, which leaves an int64 as it was.
Accepts(c) ==
  /\ ChecksAlone(c)
  /\ IntMin(c.cluster_max_size, c.cluster_min_size)
  /\ ~GreaterEq(c.roi_min_x, c.roi_max_x)
  /\ ~GreaterEq(c.vehicle_min_length, c.vehicle_max_length)
  /\ ~GreaterEq(c.vehicle_min_width, c.vehicle_max_width)
  /\ ~GreaterEq(c.vehicle_min_height, c.vehicle_max_height)

Candidate(name, value) == [snapshot EXCEPT ![name] = value]

\* One parameter set by itself: the node's callback, then rclcpp's own copy.
SetParameter(name, value) ==
  IF Accepts(Candidate(name, value))
  THEN /\ snapshot' = Candidate(name, value)
       /\ parameters' = [parameters EXCEPT ![name] = value]
  ELSE UNCHANGED settingVars

SetByOther ==
  /\ node = "idle"
  /\ \E u \in Updates : SetParameter(u[1], u[2])
  /\ UNCHANGED <<node, frameVars>>

-----------------------------------------------------------------------------
(***************************************************************************)
(* Frames                                                                  *)
(***************************************************************************)

\* The numbers 1, 2, ... given to a set of clusters.
Numbered(clusters) == Surjection(1 .. Cardinality(clusters), clusters)

\* Slip: the markers of the frame before are not deleted.
MarkersAdded(shown, boxes) ==
  [frame |-> snap.target_frame_id,
   boxes |-> [i \in DOMAIN boxes \cup DOMAIN shown.boxes |->
                IF i \in DOMAIN boxes THEN boxes[i] ELSE shown.boxes[i]]]

\* A viewer that gets DELETEALL and then one marker per box.
MarkersShown(shown, boxes) ==
  [frame |-> snap.target_frame_id, boxes |-> boxes]

\* Slip: the region is cropped for the markers only.
WithoutCrop(cloud, c) ==
  NonGround(VoxelDownsample(cloud, c.voxel_leaf_size),
            c.ground_distance_threshold, c.cluster_min_size)

\* What is left of a cloud for clustering.
ForClustering(cloud, c) ==
  NonGround(CropRoi(VoxelDownsample(cloud, c.voxel_leaf_size),
                    c.roi_min_x, c.roi_max_x),
            c.ground_distance_threshold, c.cluster_min_size)

Clusters(points, c) ==
  ExtractClusters(points, c.cluster_tolerance, c.cluster_min_size,
                  c.cluster_max_size)

Vehicles(clusters, c) == {k \in clusters : IsPassengerVehicle(k, c)}

\* lookupTransform found no transform within its timeout: the frame is left.
DropCloud ==
  /\ node = "idle"
  /\ snapshot.target_frame_id # InputFrame
  /\ last_frame' = IF last_frame = "none" THEN "none" ELSE "dropped"
  /\ UNCHANGED <<node, settingVars, snap, vehicles, outputVars>>

\* on_cloud up to the cluster markers, with the settings of this moment.
ProcessCloud ==
  /\ node = "idle"
  /\ node' = "detections"
  /\ snap' = snapshot
  /\ \E cloud \in Clouds : \E points \in ForClustering(cloud, snap') :
       LET clusters == Clusters(points, snap')
       IN  \E boxes \in Numbered(clusters) :
             /\ cluster_markers' = [frame |-> snap'.target_frame_id,
                                    boxes |-> boxes]
             /\ vehicles' \in Numbered(Vehicles(clusters, snap'))
  /\ UNCHANGED <<settingVars, last_frame, detections, vehicle_markers>>

PublishDetections ==
  /\ node = "detections"
  /\ node' = "markers"
  /\ detections' = [frame |-> snap.target_frame_id, boxes |-> vehicles]
  /\ UNCHANGED <<settingVars, last_frame, snap, vehicles, cluster_markers,
                 vehicle_markers>>

PublishMarkers ==
  /\ node = "markers"
  /\ node' = "idle"
  /\ vehicle_markers' = MarkersShown(vehicle_markers, vehicles)
  /\ last_frame' = "published"
  /\ vehicles' = <<>>
  /\ UNCHANGED <<settingVars, snap, cluster_markers, detections>>

Frame == DropCloud \/ ProcessCloud \/ PublishDetections \/ PublishMarkers

-----------------------------------------------------------------------------
(***************************************************************************)
(* Start and end of the process                                            *)
(***************************************************************************)
StartDetector ==
  /\ node = "down"
  /\ node' = "idle"
  /\ parameters' \in {c \in InitialParameters : Accepts(c)}
  /\ snapshot' = parameters'
  /\ last_frame' = "none"
  /\ UNCHANGED <<snap, vehicles, outputVars>>

\* It may end anywhere, also in the middle of a frame.
StopDetector ==
  /\ node # "down"
  /\ node' = "down"
  /\ vehicles' = <<>>
  /\ UNCHANGED <<settingVars, last_frame, snap, outputVars>>

NothingShown == [frame |-> InputFrame, boxes |-> <<>>]

DetectorInit ==
  /\ node = "down"
  /\ parameters \in {c \in InitialParameters : Accepts(c)}
  /\ snapshot = parameters
  /\ last_frame = "none"
  /\ snap = parameters /\ vehicles = <<>>
  /\ cluster_markers = NothingShown
  /\ detections = NothingShown
  /\ vehicle_markers = NothingShown

DetectorNext == Frame \/ SetByOther \/ StartDetector \/ StopDetector

DetectorSpec == DetectorInit /\ [][DetectorNext]_detectorVars

-----------------------------------------------------------------------------
(***************************************************************************)
(* Properties                                                              *)
(***************************************************************************)
DetectorTypeOK ==
  /\ node \in {"down", "idle", "serving", "detections", "markers"}
  /\ {parameters, snapshot, snap} \subseteq Parameters
  /\ last_frame \in {"none", "dropped", "published"}
  /\ \A shown \in {cluster_markers, detections, vehicle_markers} :
       shown.frame \in FrameIds

\* Whatever is set, in whatever order, alone or in groups: the settings a frame
\* works with are those rclcpp reports, neither the region nor a range of
\* sizes is empty (unless a bound is NaN, which no comparison excludes), no
\* other double is NaN, and there is a cluster size that passes both limits
\* (FR-008).
NotEmpty(min, max) == NaN \in {min, max} \/ Greater(max, min)

SettingsSound ==
  /\ snapshot = parameters
  /\ snapshot.target_frame_id # ""
  /\ \A name \in {"voxel_leaf_size", "ground_distance_threshold",
                   "cluster_tolerance"} : Greater(snapshot[name], 0)
  /\ NotEmpty(snapshot.roi_min_x, snapshot.roi_max_x)
  /\ NotEmpty(snapshot.vehicle_min_length, snapshot.vehicle_max_length)
  /\ NotEmpty(snapshot.vehicle_min_width, snapshot.vehicle_max_width)
  /\ NotEmpty(snapshot.vehicle_min_height, snapshot.vehicle_max_height)
  /\ 1 <= snapshot.cluster_min_size
  /\ snapshot.cluster_min_size <= snapshot.cluster_max_size

\* Between two frames.
FrameComplete == node \in {"idle", "serving"} /\ last_frame # "none"

\* Between two frames the boxes on the screen are those of the last array of
\* detections, in the frame it was computed for, and none of an older frame,
\* whatever was dropped or set since.
BoxesMatchDetections ==
  FrameComplete =>
    /\ vehicle_markers = detections
    /\ detections.frame = cluster_markers.frame
    /\ Range(detections.boxes) \subseteq Range(cluster_markers.boxes)

\* The last array of detections is that of the settings of its frame: each box
\* lies in the region, is apart from every other, holds a number of points
\* between the limits, as long as an int can hold these (extract_clusters makes
\* others of greater ones, which the checks accept), and the vehicles are
\* exactly those clusters whose sizes, as the receivers of the array compute
\* them from the box (to_json_payload), are within the limits.
PayloadLength(box) == Max({Extent(box, 1), Extent(box, 2)})
PayloadWidth(box) == Min({Extent(box, 1), Extent(box, 2)})

OfAcceptedSize(box) ==
  /\ Within(PayloadLength(box), snap.vehicle_min_length, snap.vehicle_max_length)
  /\ Within(PayloadWidth(box), snap.vehicle_min_width, snap.vehicle_max_width)
  /\ Within(Extent(box, 3), snap.vehicle_min_height, snap.vehicle_max_height)

BoxesOfAcceptedCount ==
  \A b \in Range(cluster_markers.boxes) :
    Cardinality(b) \in snap.cluster_min_size .. snap.cluster_max_size

DetectionsFitSettings ==
  FrameComplete =>
    LET boxes == Range(cluster_markers.boxes)
    IN  /\ \A b \in boxes, p \in UNION boxes :
             /\ p \notin b => \A q \in b : ~Near(q, p, snap.cluster_tolerance)
             /\ ~Greater(snap.roi_min_x, p[1]) /\ ~Greater(p[1], snap.roi_max_x)
        /\ snap.cluster_max_size < IntRange => BoxesOfAcceptedCount
        /\ Range(detections.boxes) = {b \in boxes : OfAcceptedSize(b)}
=============================================================================
