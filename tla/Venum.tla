-------------------------------- MODULE Venum --------------------------------
(***************************************************************************)
(* The strings of a venum (verytb/verilog/dtype/venum.h): the names of its *)
(* enumerators, in their order, against the values these have, which need  *)
(* not be different.  A venum may also hold a value that no enumerator has.*)
(***************************************************************************)
EXTENDS Integers, Sequences, TLC

(* Aliases that do not follow each other lost. *)
BugNeighboursOnly(values, names, v) ==
    LET first == CHOOSE i \in DOMAIN values : values[i] = v /\ \A j \in 1 .. i - 1 : values[j] # v
        last  == CHOOSE i \in first .. Len(values) :
                     /\ \A j \in first .. i : values[j] = v
                     /\ i = Len(values) \/ values[i + 1] # v
    IN SubSeq(names, first, last)

(* The names of v's enumerators.                                            *)
value_to_all_names(values, names, v) ==
    LET all == [i \in DOMAIN names |-> [name |-> names[i], value |-> values[i]]]
        own == SelectSeq(all, LAMBDA e : e.value = v)
    IN [i \in DOMAIN own |-> own[i].name]

NameOf(name_list) ==
    CASE Len(name_list) = 1 -> name_list[1]
      [] Len(name_list) = 2 -> name_list[1] \o "/" \o name_list[2]
      [] OTHER              -> name_list[1] \o "/..."

ConstructValueToNameMap(values, names) ==
    [v \in {values[i] : i \in DOMAIN values} |-> NameOf(value_to_all_names(values, names, v))]

GetEnumStringRepresentation(v, value_to_name_map) ==
    IF v \in DOMAIN value_to_name_map THEN value_to_name_map[v]
    ELSE "INVALID_" \o ToString(v)
=============================================================================
