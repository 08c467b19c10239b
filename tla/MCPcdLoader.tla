---------------------------- MODULE MCPcdLoader ----------------------------
(***************************************************************************)
(* Instances of PcdLoader: three files, the third one only in the          *)
(* directory, two versions of each.                                        *)
(***************************************************************************)
EXTENDS PcdLoader

MCFiles == 1 .. 3
MCListing == [d \in Directories |-> IF d = "dir" THEN MCFiles ELSE NoDirectory]
MCMatched == {2, 3}

Base ==
  [pcd_file |-> 1, pcd_files |-> <<>>, pcd_directory |-> NoPath,
   loop |-> TRUE, publish_once |-> FALSE, others_valid |-> TRUE]

\* Every source of the playlist, alone and against the others, looping or not.
MCSources ==
  {[Base EXCEPT !.pcd_file = f] : f \in {NoPath, 1}}
  \cup {[Base EXCEPT !.pcd_files = s] : s \in {<<1, 2, 3>>, <<2, 1>>, <<1, 1>>, <<1, NoPath>>}}
  \cup {[Base EXCEPT !.pcd_directory = d] : d \in Directories}
  \cup {[Base EXCEPT !.others_valid = FALSE]}

MCConfigs ==
  {[c EXCEPT !.loop = l, !.publish_once = o] :
     c \in MCSources, l \in BOOLEAN, o \in BOOLEAN}
=============================================================================
