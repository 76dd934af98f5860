------------------------------ MODULE ExpUtil ------------------------------
(***************************************************************************)
(* The readers of exp-util.cc.  A text is taken as a whole; which texts a  *)
(* parser takes, and for which value, is what the rest of the program      *)
(* depends on.  A parser that throws has no value, so each is given by the *)
(* texts it takes.                                                         *)
(***************************************************************************)
EXTENDS Integers, Sequences, FiniteSets, TLC

CONSTANT
    Int64Of   \* the texts std::stoll takes as a whole, each with its value

(* Leading zeros and a sign are allowed, a fraction is not. *)
ASSUME Int64Assumption ==
    /\ \A t \in DOMAIN Int64Of : Int64Of[t] \in Int
    /\ {"0.5", "nan"} \cap DOMAIN Int64Of = {}

parse_int64 == DOMAIN Int64Of
parse_positive_int64 == {t \in parse_int64 : ~ Int64Of[t] < 0}
parse_geq_one_int64 == {t \in parse_positive_int64 : ~ Int64Of[t] < 1}

(* std::stod also takes fractions, and "nan", which is not below zero. *)
parse_double == parse_int64 \cup {"0.5", "nan"}
parse_positive_double == {t \in parse_double : t \in parse_int64 => ~ Int64Of[t] < 0}

parse_boolean == {"true", "1", "false", "0"}
BooleanOf(t) == t \in {"true", "1"}

(* set(...) and map(...) as the trimmed texts between the commas.  Two     *)
(* equal texts (or keys) throw; in a set of numbers so do two texts of one *)
(* number.                                                                 *)
SetOf(s) == {s[i] : i \in DOMAIN s}
parse_set_string(s) == Cardinality(SetOf(s)) = Len(s)
parse_set_positive_int64(s) ==
    /\ parse_set_string(s)
    /\ SetOf(s) \subseteq parse_positive_int64
    /\ Cardinality(SetOf(s)) = Cardinality({Int64Of[t] : t \in SetOf(s)})
SetText == ("set()" :> <<>>) @@ ("set(0)" :> <<"0">>) @@ ("set(0,00)" :> <<"0", "00">>)
set_positive_int64 == {t \in DOMAIN SetText : parse_set_positive_int64(SetText[t])}

(* Each element of a map is given by the texts between its colons. *)
parse_map_string(elements) ==
    /\ \A e \in SetOf(elements) : Len(e) = 2
    /\ \A i, j \in DOMAIN elements : elements[i][1] = elements[j][1] => i = j
MapOf(elements) == [k \in {e[1] : e \in SetOf(elements)} |->
                      (CHOOSE e \in SetOf(elements) : e[1] = k)[2]]

(* The lines of a properties file, each as the texts between its equal     *)
(* signs; << >> is a line of whitespace or one that begins with a hash.    *)
(* Any other line, an indented comment too, must have one equal sign.      *)
Settings(lines) == SelectSeq(lines, LAMBDA l : l # <<>>)
read_config(lines) == parse_map_string(Settings(lines))
ConfigOf(lines) == MapOf(Settings(lines))

(* A key with the texts its parser takes.  get_param_or_fail has no        *)
(* default; a name that is not a text stands for its exception.            *)
AnyText == parse_double \cup parse_boolean \cup DOMAIN SetText \cup {"all", "name"}
NotSet == "not set"
OrFail(key, takes) == [key |-> key, takes |-> takes, default |-> NotSet]
OrDefault(key, takes, default) == [key |-> key, takes |-> takes, default |-> default]
GetParam(config, k) == IF k.key \in DOMAIN config THEN config[k.key] ELSE k.default
Accepted(config, k) == GetParam(config, k) \in k.takes
=============================================================================
