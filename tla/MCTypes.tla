------------------------------ MODULE MCTypes -------------------------------
(* The functions of the standard library, one of nothing but rest, and one *)
(* that takes an array of two; parameters of the types of print_format's   *)
(* and its helpers', and a pointer to an array; types of which the         *)
(* identity takes two for each other, and arrays of the length that        *)
(* literals may have, and of another.                                      *)
EXTENDS Types

string == pointer_to(value_of("s1"))
Function(type, parameters, rest, vararg) ==
  [type |-> type, parameters |-> parameters, rest |-> rest, vararg |-> vararg]

puts == Function(s4, <<string>>, FALSE, FALSE)
printf == Function(NoType, <<string>>, FALSE, TRUE)
print_format == Function(NoType, <<string, pointer_to(any)>>, TRUE, FALSE)
sum == Function(s4, <<pointer_to(s4)>>, TRUE, FALSE)
pair == Function(s4, <<array_of(s4, 2)>>, FALSE, FALSE)

MCParameters == [c |-> value_of("s1"), r |-> pointer_to(any),
                 p |-> pointer_to(array_of(s4, 2))]
MCFunctions == {puts, printf, print_format, sum, pair}
MCTypeNames == {value_of("s1"), s4, string, array_of(value_of("s1"), 2), array_of(s4, 5),
                pointer_to(array_of(value_of("s1"), 2))}
=============================================================================
