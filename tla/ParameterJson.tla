---------------------------- MODULE ParameterJson ----------------------------
(***************************************************************************)
(* parameter_json.cpp: from a JSON value to the value of a parameter.      *)
(*                                                                         *)
(* A JSON value is a kind and a content, as nlohmann tells them apart:     *)
(* <<"unsigned", 2>>, <<"integer", -2>>, <<"float", x>>, <<"bool", TRUE>>, *)
(* <<"string", "map">>, <<"array", a sequence of values>>, <<"null", 0>>.  *)
(* Doubles are counted in a unit of which One make 1.0, so that there are  *)
(* fractions.                                                              *)
(***************************************************************************)
EXTENDS Integers, Sequences

CONSTANTS
  One,        \* 1.0
  Int64Max,   \* small here, so that JSON numbers exceed it
  Dumped      \* the text of a number or a bool

Int64Min == -Int64Max - 1

Kind(raw) == raw[1]
Content(raw) == raw[2]
IsNumber(raw) == Kind(raw) \in {"unsigned", "integer", "float"}
IsBool(raw) == Kind(raw) = "bool"
IsString(raw) == Kind(raw) = "string"

\* A number as a double, a bool as 0 or 1.
ToDouble(raw) ==
  IF IsBool(raw) THEN IF Content(raw) THEN One ELSE 0
  ELSE IF Kind(raw) = "float" THEN Content(raw) ELSE Content(raw) * One

\* Slip: a fraction is cut off, as by a bare cast.
IntRangeOnly(raw) ==
  \/ Kind(raw) = "unsigned" /\ Content(raw) <= Int64Max
  \/ Kind(raw) = "integer" \/ IsBool(raw)
  \/ Kind(raw) = "float" /\ Content(raw) \div One \in Int64Min .. Int64Max

\* json_to_int throws for what no int64 is equal to.
IsInt64(raw) ==
  \/ Kind(raw) = "unsigned" /\ Content(raw) <= Int64Max
  \/ Kind(raw) = "integer" \/ IsBool(raw)
  \/ /\ Kind(raw) = "float"
     /\ Content(raw) % One = 0
     /\ Content(raw) \div One \in Int64Min .. Int64Max

TrueTexts == {"true", "1"}
FalseTexts == {"false", "0"}

ScalarConvertible(raw, type) ==
  \/ type = "double" /\ (IsNumber(raw) \/ IsBool(raw))
  \/ type = "integer" /\ IsInt64(raw)
  \/ type = "bool" /\ \/ IsNumber(raw) \/ IsBool(raw)
                      \/ IsString(raw) /\ Content(raw) \in TrueTexts \cup FalseTexts
  \/ type = "string" /\ (IsNumber(raw) \/ IsBool(raw) \/ IsString(raw))

ScalarConverted(raw, type) ==
  CASE type = "double"  -> ToDouble(raw)
    [] type = "integer" -> ToDouble(raw) \div One
    [] type = "bool"    -> IF IsString(raw) THEN Content(raw) \in TrueTexts
                           ELSE ToDouble(raw) # 0
    [] type = "string"  -> IF IsString(raw) THEN Content(raw) ELSE Dumped

\* The types of arrays and of their elements.
ElementType ==
  [double_array |-> "double", integer_array |-> "integer",
   bool_array |-> "bool", string_array |-> "string"]

\* json_to_parameter_value: whether it returns or throws, and what it returns.
Convertible(raw, type) ==
  IF type \in DOMAIN ElementType
  THEN /\ Kind(raw) = "array"
       /\ \A i \in DOMAIN Content(raw) :
            ScalarConvertible(Content(raw)[i], ElementType[type])
  ELSE ScalarConvertible(raw, type)

Converted(raw, type) ==
  IF type \in DOMAIN ElementType
  THEN [i \in DOMAIN Content(raw) |->
          ScalarConverted(Content(raw)[i], ElementType[type])]
  ELSE ScalarConverted(raw, type)
=============================================================================
