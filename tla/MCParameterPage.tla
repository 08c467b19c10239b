--------------------------- MODULE MCParameterPage ---------------------------
(***************************************************************************)
(* Instances of ParameterPage: the detector with a bound of its region,    *)
(* the loader with a list of files.                                        *)
(***************************************************************************)
EXTENDS ParameterPage

MCTargetNodes == <<"loader", "detector">>
MCDeclared ==
  [loader |-> [pcd_files |-> "string_array"],
   detector |-> [roi_min_x |-> "double", durability |-> "string"]]

\* A name that is empty and one with a comma, and a text with a line break,
\* which is read-only: the fields hold none of them.
MCValues ==
  [loader |-> [pcd_files |-> <<"", "a,b">>],
   detector |-> [roi_min_x |-> 1, durability |-> "vola\ntile"]]

\* As the QoS overrides that rclcpp declares.
MCReadOnly == {<<"detector", "durability">>}

MCOneLine == ("vola\ntile" :> "volatile")

MCPieces == [text \in {"", "a", "b", "a,b"} |->
               IF text = "" THEN <<>>
               ELSE IF text = "a,b" THEN <<"a", "b">> ELSE <<text>>]

\* A number field that is emptied.
MCTyped ==
  [string_array |-> {}, string |-> {}, double |-> {<<"empty", 0>>}]

MCOther == {<<"detector", "roi_min_x", NaN>>}
=============================================================================
