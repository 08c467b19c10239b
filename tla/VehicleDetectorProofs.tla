----------------------- MODULE VehicleDetectorProofs -----------------------
(***************************************************************************)
(* For all values of the parameters, all parameter files and all clouds:   *)
(* what VehicleDetector promises of its settings and of what a viewer      *)
(* shows between two frames.                                               *)
(***************************************************************************)
EXTENDS VehicleDetector, FiniteSetTheorems, TLAPS

-----------------------------------------------------------------------------
(***************************************************************************)
(* The inductive invariant                                                 *)
(***************************************************************************)

\* The settings in force always passed the checks, and a node that is down has
\* left those of its last run.
SettingsAccepted == snapshot = parameters /\ Accepts(snapshot)

\* Halfway through a frame, what is already shown is of that frame, and the
\* boxes of its vehicles are among those of its clusters.
FrameHalfShown ==
  /\ node \in {"detections", "markers"} =>
       /\ cluster_markers.frame = snap.target_frame_id
       /\ Range(vehicles) \subseteq Range(cluster_markers.boxes)
  /\ node = "markers" =>
       detections = [frame |-> snap.target_frame_id, boxes |-> vehicles]

\* The two halves of DetectionsFitSettings that speak of clusters: they are
\* shown together with the settings they were computed from, also by a node
\* that is down.
BoxesApart ==
  LET boxes == Range(cluster_markers.boxes)
  IN  \A b \in boxes, p \in UNION boxes :
        /\ p \notin b => \A q \in b : ~Near(q, p, snap.cluster_tolerance)
        /\ ~Greater(snap.roi_min_x, p[1]) /\ ~Greater(p[1], snap.roi_max_x)

BoxesOfSize ==
  snap.cluster_max_size < IntRange => BoxesOfAcceptedCount

\* The vehicles of the frame at work, and of the last one that was completed.
AcceptedBoxes == {b \in Range(cluster_markers.boxes) : OfAcceptedSize(b)}

VehiclesFit ==
  /\ node \in {"detections", "markers"} => Range(vehicles) = AcceptedBoxes
  /\ FrameComplete => Range(detections.boxes) = AcceptedBoxes

FrameFits == BoxesApart /\ BoxesOfSize /\ VehiclesFit

Inv ==
  /\ DetectorTypeOK
  /\ SettingsAccepted
  /\ FrameHalfShown
  /\ BoxesMatchDetections

-----------------------------------------------------------------------------
(***************************************************************************)
(* Settings                                                                *)
(***************************************************************************)

\* An update changes one parameter to a value of its type.
LEMMA CandidateTyped ==
  ASSUME snapshot \in Parameters,
         NEW name \in ParameterNames, NEW value \in ValuesOf(name)
  PROVE  Candidate(name, value) \in Parameters
<1> USE DEF Candidate, Parameters, ValuesOf, SizeNames, DoubleNames, ParameterNames
<1>1. CASE name = "target_frame_id"
  BY <1>1
<1>2. CASE name = "voxel_leaf_size"
  BY <1>2
<1>3. CASE name = "roi_min_x"
  BY <1>3
<1>4. CASE name = "roi_max_x"
  BY <1>4
<1>5. CASE name = "ground_distance_threshold"
  BY <1>5
<1>6. CASE name = "cluster_tolerance"
  BY <1>6
<1>7. CASE name = "cluster_min_size"
  BY <1>7
<1>8. CASE name = "cluster_max_size"
  BY <1>8
<1>9. CASE name = "vehicle_min_length"
  BY <1>9
<1>10. CASE name = "vehicle_max_length"
  BY <1>10
<1>11. CASE name = "vehicle_min_width"
  BY <1>11
<1>12. CASE name = "vehicle_max_width"
  BY <1>12
<1>13. CASE name = "vehicle_min_height"
  BY <1>13
<1>14. CASE name = "vehicle_max_height"
  BY <1>14
<1> QED
  BY <1>1, <1>2, <1>3, <1>4, <1>5, <1>6, <1>7, <1>8, <1>9, <1>10, <1>11, <1>12, <1>13,
     <1>14

\* Two bounds that the check lets pass are apart, unless one is NaN: the
\* comparison is false for NaN only.
LEMMA NotRefusedNotEmpty ==
  ASSUME NEW min \in Doubles \cup {NaN}, NEW max \in Doubles \cup {NaN},
         ~GreaterEq(min, max)
  PROVE  NotEmpty(min, max)
<1>1. CASE min # NaN /\ max # NaN
  <2>1. min \in Int /\ max \in Int /\ ~(min >= max)
    BY <1>1, DetectorAssumption DEF GreaterEq
  <2> QED
    BY <1>1, <2>1 DEF NotEmpty, Greater
<1>2. CASE ~(min # NaN /\ max # NaN)
  BY <1>2 DEF NotEmpty
<1> QED
  BY <1>1, <1>2

\* What the checks accept is sound.
LEMMA AcceptedIsSound ==
  ASSUME NEW c \in Parameters, Accepts(c)
  PROVE  /\ c.target_frame_id # ""
         /\ \A name \in {"voxel_leaf_size", "ground_distance_threshold",
                          "cluster_tolerance"} : Greater(c[name], 0)
         /\ NotEmpty(c.roi_min_x, c.roi_max_x)
         /\ NotEmpty(c.vehicle_min_length, c.vehicle_max_length)
         /\ NotEmpty(c.vehicle_min_width, c.vehicle_max_width)
         /\ NotEmpty(c.vehicle_min_height, c.vehicle_max_height)
         /\ 1 <= c.cluster_min_size /\ c.cluster_min_size <= c.cluster_max_size
<1> USE DetectorAssumption
<1>1. ChecksAlone(c)
  BY DEF Accepts
<1>2. /\ c.target_frame_id # "" /\ Greater(c.voxel_leaf_size, 0)
      /\ Greater(c.ground_distance_threshold, 0) /\ Greater(c.cluster_tolerance, 0)
  BY <1>1 DEF ChecksAlone, NonEmptyString, PositiveDouble
<1>3. NotEmpty(c.roi_min_x, c.roi_max_x)
  BY NotRefusedNotEmpty DEF Accepts, Parameters
<1>4. /\ NotEmpty(c.vehicle_min_length, c.vehicle_max_length)
      /\ NotEmpty(c.vehicle_min_width, c.vehicle_max_width)
      /\ NotEmpty(c.vehicle_min_height, c.vehicle_max_height)
  BY NotRefusedNotEmpty DEF Accepts, Parameters
<1>5. 1 <= c.cluster_min_size /\ c.cluster_min_size <= c.cluster_max_size
  <2>1. c.cluster_min_size \in Int /\ c.cluster_max_size \in Int
    BY DEF Parameters
  <2> QED
    BY <1>1, <2>1 DEF Accepts, ChecksAlone, IntMin
<1> QED
  BY <1>2, <1>3, <1>4, <1>5

\* The numbered boxes are those of the set that is numbered.
LEMMA NumberedBoxes ==
  ASSUME NEW clusters, NEW boxes \in Numbered(clusters)
  PROVE  Range(boxes) = clusters
BY DEF Numbered, Surjection, Range

-----------------------------------------------------------------------------
(***************************************************************************)
(* The steps                                                               *)
(***************************************************************************)

\* The first start leaves nothing on the screen.
LEMMA InitInv == DetectorInit => Inv
<1> SUFFICES ASSUME DetectorInit PROVE Inv
  OBVIOUS
<1> USE DetectorAssumption DEF DetectorInit
<1>1. DetectorTypeOK
  BY DEF DetectorTypeOK, NothingShown
<1> QED
  BY <1>1 DEF Inv, SettingsAccepted, FrameHalfShown, BoxesMatchDetections,
     FrameComplete

\* Setting a parameter, refused or not.
LEMMA SetByOtherStep == Inv /\ SetByOther => Inv'
<1> SUFFICES ASSUME Inv, SetByOther PROVE Inv'
  OBVIOUS
<1> USE DetectorAssumption DEF Inv, SetByOther, frameVars, outputVars
<1> PICK u \in Updates : SetParameter(u[1], u[2])
  OBVIOUS
<1>1. u[1] \in ParameterNames /\ u[2] \in ValuesOf(u[1])
  OBVIOUS
<1>2. Candidate(u[1], u[2]) \in Parameters
  BY <1>1, CandidateTyped DEF DetectorTypeOK
<1>3. /\ snapshot' \in Parameters /\ parameters' = snapshot'
      /\ Accepts(snapshot')
  BY <1>2 DEF SetParameter, settingVars, DetectorTypeOK, SettingsAccepted, Candidate
<1>4. DetectorTypeOK'
  BY <1>3 DEF DetectorTypeOK
<1>5. SettingsAccepted'
  BY <1>3 DEF SettingsAccepted
<1>6. FrameHalfShown' /\ BoxesMatchDetections'
  BY DEF FrameHalfShown, BoxesMatchDetections, FrameComplete
<1> QED
  BY <1>4, <1>5, <1>6

\* The steps of a frame: each output is computed from the locals of the frame.
LEMMA FrameStep == Inv /\ Frame => Inv'
<1> SUFFICES ASSUME Inv, Frame PROVE Inv'
  OBVIOUS
<1> USE DetectorAssumption DEF Inv, settingVars, outputVars
<1>0. SettingsAccepted'
  BY DEF Frame, DropCloud, ProcessCloud, PublishDetections, PublishMarkers,
     SettingsAccepted
<1>1. CASE DropCloud
  <2>1. DetectorTypeOK'
    BY <1>1 DEF DropCloud, DetectorTypeOK
  <2>2. FrameHalfShown' /\ BoxesMatchDetections'
    BY <1>1 DEF DropCloud, FrameHalfShown, BoxesMatchDetections, FrameComplete
  <2> QED
    BY <1>0, <2>1, <2>2
<1>2. CASE ProcessCloud
  <2> PICK points \in UNION {ForClustering(cloud, snap') : cloud \in Clouds} :
        \E boxes \in Numbered(Clusters(points, snap')) :
          /\ cluster_markers' = [frame |-> snap'.target_frame_id, boxes |-> boxes]
          /\ vehicles' \in Numbered(Vehicles(Clusters(points, snap'), snap'))
    BY <1>2 DEF ProcessCloud
  <2> DEFINE clusters == Clusters(points, snap')
  <2> PICK boxes \in Numbered(clusters) :
        /\ cluster_markers' = [frame |-> snap'.target_frame_id, boxes |-> boxes]
        /\ vehicles' \in Numbered(Vehicles(clusters, snap'))
    OBVIOUS
  <2>1. snap' \in Parameters /\ snap'.target_frame_id \in FrameIds
    BY <1>2 DEF ProcessCloud, DetectorTypeOK, Parameters
  <2>2. DetectorTypeOK'
    BY <1>2, <2>1 DEF ProcessCloud, DetectorTypeOK
  <2>3. Range(vehicles') \subseteq Range(boxes)
    BY NumberedBoxes DEF Vehicles
  <2>4. FrameHalfShown'
    BY <1>2, <2>3 DEF ProcessCloud, FrameHalfShown
  <2>5. BoxesMatchDetections'
    BY <1>2 DEF ProcessCloud, BoxesMatchDetections, FrameComplete
  <2> QED
    BY <1>0, <2>2, <2>4, <2>5
<1>3. CASE PublishDetections
  <2>1. snap.target_frame_id \in FrameIds
    BY DEF DetectorTypeOK, Parameters
  <2>2. DetectorTypeOK'
    BY <1>3, <2>1 DEF PublishDetections, DetectorTypeOK
  <2>3. FrameHalfShown' /\ BoxesMatchDetections'
    BY <1>3 DEF PublishDetections, FrameHalfShown, BoxesMatchDetections,
       FrameComplete
  <2> QED
    BY <1>0, <2>2, <2>3
<1>4. CASE PublishMarkers
  <2>1. vehicle_markers' = detections
    BY <1>4 DEF PublishMarkers, MarkersShown, FrameHalfShown
  <2>2. DetectorTypeOK'
    BY <1>4, <2>1 DEF PublishMarkers, DetectorTypeOK
  <2>3. FrameHalfShown'
    BY <1>4 DEF PublishMarkers, FrameHalfShown
  <2>4. BoxesMatchDetections'
    <3>1. detections = [frame |-> snap.target_frame_id, boxes |-> vehicles]
      BY <1>4 DEF PublishMarkers, FrameHalfShown
    <3>2. detections.frame = snap.target_frame_id /\ detections.boxes = vehicles
      BY <3>1
    <3>3. /\ cluster_markers.frame = snap.target_frame_id
          /\ Range(vehicles) \subseteq Range(cluster_markers.boxes)
      BY <1>4 DEF PublishMarkers, FrameHalfShown
    <3>4. vehicle_markers' = detections' /\ UNCHANGED <<detections, cluster_markers>>
      BY <1>4, <2>1 DEF PublishMarkers
    <3> QED
      BY <3>2, <3>3, <3>4 DEF BoxesMatchDetections
  <2> QED
    BY <1>0, <2>2, <2>3, <2>4
<1> QED
  BY <1>1, <1>2, <1>3, <1>4 DEF Frame

\* A start takes a file that passes, an end may cut a frame in two.
LEMMA StartStopStep == Inv /\ (StartDetector \/ StopDetector) => Inv'
<1> SUFFICES ASSUME Inv, StartDetector \/ StopDetector PROVE Inv'
  OBVIOUS
<1> USE DetectorAssumption DEF Inv, settingVars, outputVars
<1>1. CASE StartDetector
  BY <1>1 DEF StartDetector, DetectorTypeOK, SettingsAccepted, FrameHalfShown,
     BoxesMatchDetections, FrameComplete
<1>2. CASE StopDetector
  BY <1>2 DEF StopDetector, DetectorTypeOK, SettingsAccepted, FrameHalfShown,
     BoxesMatchDetections, FrameComplete
<1> QED
  BY <1>1, <1>2

\* The invariant holds always.
LEMMA Invariant == DetectorSpec => []Inv
<1>1. DetectorInit => Inv
  BY InitInv
<1>2. Inv /\ [DetectorNext]_detectorVars => Inv'
  <2> SUFFICES ASSUME Inv, [DetectorNext]_detectorVars PROVE Inv'
    OBVIOUS
  <2>1. CASE UNCHANGED detectorVars
    BY <2>1 DEF detectorVars, settingVars, frameVars, outputVars, Inv, DetectorTypeOK,
       SettingsAccepted, FrameHalfShown, BoxesMatchDetections, FrameComplete
  <2> QED
    BY <2>1, SetByOtherStep, FrameStep, StartStopStep DEF DetectorNext
<1> QED
  BY <1>1, <1>2, PTL DEF DetectorSpec

-----------------------------------------------------------------------------
(***************************************************************************)
(* What a frame computes                                                   *)
(***************************************************************************)

\* What is left for clustering is finite and lies in the region.
LEMMA ClusteringInput ==
  ASSUME NEW cloud, IsFiniteSet(cloud), NEW c,
         NEW points \in ForClustering(cloud, c)
  PROVE  /\ IsFiniteSet(points)
         /\ \A p \in points : ~Greater(c.roi_min_x, p[1]) /\ ~Greater(p[1], c.roi_max_x)
<1> DEFINE sampled == VoxelDownsample(cloud, c.voxel_leaf_size)
           cropped == CropRoi(sampled, c.roi_min_x, c.roi_max_x)
           CellOf(p) == {q \in cloud : Voxel(q, c.voxel_leaf_size) = Voxel(p, c.voxel_leaf_size)}
           f == [p \in cloud |-> Centroid(CellOf(p))]
<1>1. IsFiniteSet(sampled)
  <2>1. CASE Greater(c.voxel_leaf_size, 0)
    <3> HIDE DEF CellOf
    <3>1. f \in Surjection(cloud, {Centroid(CellOf(p)) : p \in cloud})
      BY DEF Surjection
    <3>2. IsFiniteSet({Centroid(CellOf(p)) : p \in cloud})
      BY <3>1, FS_Surjection
    <3>3. sampled = {Centroid(CellOf(p)) : p \in cloud}
      BY <2>1 DEF VoxelDownsample, CellOf
    <3> QED
      BY <3>2, <3>3
  <2> QED
    BY <2>1 DEF VoxelDownsample
<1> HIDE DEF sampled
<1>2. cropped \subseteq sampled
  BY DEF CropRoi
<1>3. points \in NonGround(cropped, c.ground_distance_threshold, c.cluster_min_size)
  BY DEF ForClustering, sampled
<1>4. points \subseteq cropped
  BY <1>3 DEF NonGround
<1>5. IsFiniteSet(points)
  BY <1>1, <1>2, <1>4, FS_Subset
<1>6. \A p \in cropped : ~Greater(c.roi_min_x, p[1]) /\ ~Greater(p[1], c.roi_max_x)
  BY DEF CropRoi
<1> QED
  BY <1>4, <1>5, <1>6

\* Clusters are parts of the cloud and keep their distance from the rest of it.
LEMMA ClustersApart ==
  ASSUME NEW points, NEW c,
         NEW k \in Clusters(points, c), NEW p \in points, p \notin k
  PROVE  \A q \in k : ~Near(q, p, c.cluster_tolerance)
<1>1. k \in Components(points, c.cluster_tolerance)
  BY DEF Clusters, ExtractClusters
<1>2. Closed(k, points, c.cluster_tolerance)
  BY <1>1 DEF Components
<1> QED
  BY <1>2 DEF Closed

\* A limit that an int can hold reaches PCL as it is, and with it the lower one.
LEMMA ClustersOfSize ==
  ASSUME NEW points, IsFiniteSet(points), NEW c \in Parameters, Accepts(c),
         c.cluster_max_size < IntRange, NEW k \in Clusters(points, c)
  PROVE  Cardinality(k) \in c.cluster_min_size .. c.cluster_max_size
<1> USE DetectorAssumption, IntRangeAssumption
<1>1. /\ c.cluster_min_size \in Int /\ c.cluster_max_size \in Int
      /\ 1 <= c.cluster_min_size /\ c.cluster_min_size <= c.cluster_max_size
  BY AcceptedIsSound DEF Parameters
<1>2. /\ ClusterSize(c.cluster_min_size) = c.cluster_min_size
      /\ ClusterSize(c.cluster_max_size) = c.cluster_max_size
  BY <1>1 DEF ClusterSize
<1>3. k \subseteq points
  BY DEF Clusters, ExtractClusters, Components
<1>4. Cardinality(k) \in Nat
  BY <1>3, FS_Subset, FS_CardinalityType
<1>5. Cardinality(k) >= c.cluster_min_size /\ Cardinality(k) <= c.cluster_max_size
  BY <1>2 DEF Clusters, ExtractClusters
<1> QED
  BY <1>1, <1>4, <1>5

\* The frame that is computed fits the settings it is computed with.
LEMMA ProcessCloudFits == Inv /\ ProcessCloud => FrameFits'
<1> SUFFICES ASSUME Inv, ProcessCloud PROVE FrameFits'
  OBVIOUS
<1> USE DetectorAssumption
<1> PICK cloud \in Clouds : \E points \in ForClustering(cloud, snap') :
      \E boxes \in Numbered(Clusters(points, snap')) :
        /\ cluster_markers' = [frame |-> snap'.target_frame_id, boxes |-> boxes]
        /\ vehicles' \in Numbered(Vehicles(Clusters(points, snap'), snap'))
  BY DEF ProcessCloud
<1> PICK points \in ForClustering(cloud, snap') :
      \E boxes \in Numbered(Clusters(points, snap')) :
        /\ cluster_markers' = [frame |-> snap'.target_frame_id, boxes |-> boxes]
        /\ vehicles' \in Numbered(Vehicles(Clusters(points, snap'), snap'))
  OBVIOUS
<1> PICK boxes \in Numbered(Clusters(points, snap')) :
      /\ cluster_markers' = [frame |-> snap'.target_frame_id, boxes |-> boxes]
      /\ vehicles' \in Numbered(Vehicles(Clusters(points, snap'), snap'))
  OBVIOUS
<1> DEFINE clusters == Clusters(points, snap')
<1>1. snap' \in Parameters /\ Accepts(snap')
  BY DEF ProcessCloud, Inv, DetectorTypeOK, SettingsAccepted
<1>2. /\ IsFiniteSet(points)
      /\ \A p \in points : /\ ~Greater(snap'.roi_min_x, p[1])
                            /\ ~Greater(p[1], snap'.roi_max_x)
  BY ClusteringInput
<1>3. Range(cluster_markers'.boxes) = clusters
  BY NumberedBoxes
<1>4. \A k \in clusters : k \subseteq points
  BY DEF Clusters, ExtractClusters, Components
<1> HIDE DEF clusters
<1>5. BoxesApart'
  <2> SUFFICES ASSUME NEW b \in clusters, NEW p \in points
               PROVE  /\ p \notin b => \A q \in b : ~Near(q, p, snap'.cluster_tolerance)
                      /\ ~Greater(snap'.roi_min_x, p[1])
                      /\ ~Greater(p[1], snap'.roi_max_x)
    BY <1>3, <1>4 DEF BoxesApart
  <2> QED
    BY <1>2, ClustersApart DEF clusters
<1>6. BoxesOfSize'
  BY <1>1, <1>2, <1>3, ClustersOfSize DEF BoxesOfSize, BoxesOfAcceptedCount, clusters
<1>7. Range(vehicles') = Vehicles(clusters, snap')
  BY NumberedBoxes DEF clusters
<1>8. \A b : IsPassengerVehicle(b, snap') = OfAcceptedSize(b)'
  BY DEF IsPassengerVehicle, OfAcceptedSize, BoxLength, BoxWidth, PayloadLength,
     PayloadWidth
<1>9. Range(vehicles') = AcceptedBoxes'
  BY <1>3, <1>7, <1>8 DEF Vehicles, AcceptedBoxes
<1>10. VehiclesFit'
  BY <1>9 DEF VehiclesFit, FrameComplete, ProcessCloud
<1> QED
  BY <1>5, <1>6, <1>10 DEF FrameFits

\* Every other step leaves the settings and the clusters of the frame alone.
LEMMA FitsKept ==
  FrameFits /\ UNCHANGED <<snap, cluster_markers>> /\ VehiclesFit' => FrameFits'
<1> SUFFICES ASSUME FrameFits, UNCHANGED <<snap, cluster_markers>>, VehiclesFit'
             PROVE  FrameFits'
  OBVIOUS
<1> QED
  BY DEF FrameFits, BoxesApart, BoxesOfSize, BoxesOfAcceptedCount

\* And what it publishes are the vehicles of the frame.
LEMMA FitsStep == Inv /\ FrameFits /\ [DetectorNext]_detectorVars => FrameFits'
<1> SUFFICES ASSUME Inv, FrameFits, [DetectorNext]_detectorVars PROVE FrameFits'
  OBVIOUS
<1>0. UNCHANGED <<snap, cluster_markers>> => AcceptedBoxes' = AcceptedBoxes
  BY DEF AcceptedBoxes, OfAcceptedSize
<1> USE DEF FrameFits, VehiclesFit, FrameComplete
<1>1. CASE ProcessCloud
  BY <1>1, ProcessCloudFits
<1>2. CASE PublishDetections
  BY <1>0, <1>2, FitsKept DEF PublishDetections
<1>3. CASE PublishMarkers
  <2>1. detections.boxes = vehicles
    BY <1>3 DEF PublishMarkers, Inv, FrameHalfShown
  <2>2. VehiclesFit'
    BY <1>0, <1>3, <2>1 DEF PublishMarkers
  <2> QED
    BY <1>3, <2>2, FitsKept DEF PublishMarkers
<1>4. CASE DropCloud
  BY <1>0, <1>4, FitsKept DEF DropCloud, outputVars
<1>5. CASE SetByOther
  BY <1>0, <1>5, FitsKept DEF SetByOther, frameVars, outputVars
<1>6. CASE StartDetector \/ StopDetector
  BY <1>0, <1>6, FitsKept DEF StartDetector, StopDetector, outputVars
<1>7. CASE UNCHANGED detectorVars
  BY <1>0, <1>7, FitsKept DEF detectorVars, frameVars, outputVars
<1> QED
  BY <1>1, <1>2, <1>3, <1>4, <1>5, <1>6, <1>7 DEF DetectorNext, Frame

-----------------------------------------------------------------------------
(***************************************************************************)
(* The theorems                                                            *)
(***************************************************************************)

\* The settings and the outputs of a frame keep their types.
THEOREM Typed == DetectorSpec => []DetectorTypeOK
<1>1. Inv => DetectorTypeOK
  BY DEF Inv
<1> QED
  BY <1>1, Invariant, PTL

\* No sequence of updates, by whomever, brings the detector to settings that
\* the checks of on_parameter_change are there to keep out.
THEOREM SettingsAlwaysSound == DetectorSpec => []SettingsSound
<1>1. Inv => SettingsSound
  BY AcceptedIsSound DEF Inv, DetectorTypeOK, SettingsAccepted, SettingsSound
<1> QED
  BY <1>1, Invariant, PTL

\* Between frames the boxes shown are those of the last array of detections,
\* across dropped frames, updates and restarts.
THEOREM BoxesAlwaysMatch == DetectorSpec => []BoxesMatchDetections
<1>1. Inv => BoxesMatchDetections
  BY DEF Inv
<1> QED
  BY <1>1, Invariant, PTL

\* What is detected fits the settings of its frame: boxes in the region and
\* apart, of accepted numbers of points, and as vehicles just those whose
\* published size is within the limits, whatever updates came meanwhile.
THEOREM DetectionsAlwaysFit == DetectorSpec => []DetectionsFitSettings
<1>1. DetectorInit => FrameFits
  <2> SUFFICES ASSUME DetectorInit PROVE FrameFits
    OBVIOUS
  <2>1. Range(cluster_markers.boxes) = {}
    BY DEF DetectorInit, NothingShown, Range
  <2> QED
    BY <2>1 DEF DetectorInit, FrameFits, BoxesApart, BoxesOfSize,
       BoxesOfAcceptedCount, VehiclesFit, FrameComplete
<1>2. FrameFits => DetectionsFitSettings
  BY DEF FrameFits, BoxesApart, BoxesOfSize, VehiclesFit, AcceptedBoxes,
     DetectionsFitSettings
<1> QED
  BY <1>1, <1>2, FitsStep, Invariant, PTL DEF DetectorSpec
=============================================================================
