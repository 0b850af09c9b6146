-------------------------------- MODULE Wire --------------------------------
(***************************************************************************)
(* The CBOR that records and blocks are written in, down to what its       *)
(* readers tell apart: the major type of an item, its value, and for maps  *)
(* the announced number of fields and the order of keys.  The width of     *)
(* heads, the bytes of strings and the bits of doubles are left out.       *)
(*                                                                         *)
(* A struct is described twice, as its enc_ function writes it and as its  *)
(* dec_ function reads it: a layout is a sequence of fields, each a key, a *)
(* member of the struct and a kind.  An optional member is a set with at   *)
(* most one element, and so is what a reader returns: empty when it throws.*)
(***************************************************************************)
EXTENDS Integers, Sequences, SequencesExt

CONSTANTS
  Word,    \* how many values 32 bits have
  Octet    \* how many values 8 bits have

ASSUME WidthAssumption == Word \in Nat \ {0, 1} /\ Octet \in Nat \ {0, 1}

-----------------------------------------------------------------------------
(* Kinds of values.                                                        *)

Plain(name) == [k |-> name]

Text == Plain("text")       Num == Plain("float")     Fixed == Plain("bytes")
UInt == Plain("uint")       SInt == Plain("int")      Int8 == Plain("int8")
Title == Plain("title")     Flag == Plain("flag")     Bool == Plain("bool")
Index == Plain("index")     Branch == Plain("branch") Cut == Plain("cut")
CutOctet == Plain("octet")  Type == Plain("type")

Opt(of) == [k |-> "opt", of |-> of]         \* written only when there
OrNull(of) == [k |-> "null", of |-> of]     \* null when not there
List(of) == [k |-> "list", of |-> of]
Some(of) == [k |-> "some", of |-> of]       \* written only when not empty

F(key, name, kind) == [key |-> key, name |-> name, kind |-> kind]

Writes(fields) == [k |-> "struct", fields |-> fields]

(* A reader's layout: the keys it expects one after the other, then, as    *)
(* long as announced fields are left, any key of the tail; with `after`    *)
(* the tail must ascend from beyond that key.  A reader that looks at the  *)
(* announced number wants it between `least` and `most`.                   *)
Reads(empty, fixed, tail, least, most, after) ==
  [k |-> "struct", empty |-> empty, fixed |-> fixed, tail |-> tail,
   counted |-> TRUE, least |-> least, most |-> most, ordered |-> TRUE, after |-> after]
Exactly(empty, fixed) == Reads(empty, fixed, <<>>, Len(fixed), Len(fixed), 0)
Uncounted(empty, fixed) == [Exactly(empty, fixed) EXCEPT !.counted = FALSE]

The(one) == CHOOSE x \in one : TRUE

-----------------------------------------------------------------------------
(* Writing.                                                                *)

Item(m, v) == [m |-> m, v |-> v]
MapItem(fields) == [m |-> "map", n |-> Len(fields), v |-> fields]

WritePlain(k, x) ==
  CASE k \in {"uint", "index", "branch", "cut", "octet"} -> Item("uint", x)
    [] k \in {"int", "int8"} -> IF x >= 0 THEN Item("uint", x) ELSE Item("negint", -1 - x)
    [] k \in {"bool", "flag"} -> Item("uint", IF x THEN 1 ELSE 0)
    [] k = "title" -> Item("text", x)
    [] OTHER -> Item(k, x)

IsThere(k, x) ==
  CASE k = "opt" -> x # {}
    [] k = "some" -> x # <<>>
    [] k = "title" -> x # ""
    [] k = "flag" -> x
    [] OTHER -> TRUE

RECURSIVE Write(_, _)
Write(kind, x) ==
  CASE kind.k = "struct" ->
         LET there == SelectSeq(kind.fields, LAMBDA f : IsThere(f.kind.k, x[f.name]))
         IN MapItem([i \in DOMAIN there |->
                       <<there[i].key, Write(there[i].kind, x[there[i].name])>>])
    [] kind.k = "opt" -> Write(kind.of, The(x))
    [] kind.k = "null" -> IF x = {} THEN Item("null", 0) ELSE Write(kind.of, The(x))
    [] kind.k \in {"list", "some"} -> Item("array", [i \in DOMAIN x |-> Write(kind.of, x[i])])
    [] OTHER -> WritePlain(kind.k, x)

-----------------------------------------------------------------------------
(* Reading: the set of what comes out, empty when the reader throws.       *)

ReadPlain(k, i) ==
  LET uints == IF i.m = "uint" THEN {i.v} ELSE {}
      ints == uints \cup (IF i.m = "negint" THEN {-1 - i.v} ELSE {})
  IN CASE k = "uint" -> uints
       [] k = "index" -> {v \in uints : v < Word}
       [] k = "branch" -> {v \in uints : v < Word - 1}
       [] k = "cut" -> {v % Word : v \in uints}
       [] k = "octet" -> {v % Octet : v \in uints}
       [] k = "bool" -> {v # 0 : v \in uints}
       [] k = "flag" -> {v = 1 : v \in {v \in uints : v = 1}}
       [] k = "int" -> ints
       [] k = "int8" -> {v \in ints : 2 * v < Octet /\ 2 * v >= -Octet}
       [] k = "title" -> IF i.m = "text" /\ i.v # "" THEN {i.v} ELSE {}
       [] OTHER -> IF i.m = k THEN {i.v} ELSE {}

RECURSIVE Read(_, _)
Read(kind, i) ==
  LET Keep(done, item) == {Append(s, x) : s \in done, x \in Read(kind.of, item)}
      ReadField(done, j) ==
        LET key == i.v[j][1]
            fits == IF j <= Len(kind.fixed)
                    THEN {f \in {kind.fixed[j]} : f.key = key}
                    ELSE {f \in ToSet(kind.tail) : f.key = key}
        IN {[rec |-> [d.rec EXCEPT ![f.name] = x], last |-> key] :
               d \in {d \in done : j > Len(kind.fixed) /\ kind.ordered =>
                           key > (IF j = Len(kind.fixed) + 1 THEN kind.after ELSE d.last)},
               <<f, x>> \in UNION {{<<f, x>> : x \in Read(f.kind, i.v[j][2])} : f \in fits}}
      \* how many fields are read: those announced, and the fixed ones anyway
      reads == IF kind.counted /\ i.n > Len(kind.fixed) THEN i.n ELSE Len(kind.fixed)
      start == {[rec |-> kind.empty, last |-> 0]}
  IN CASE kind.k = "struct" ->
            IF i.m # "map" \/ (kind.counted /\ i.n \notin kind.least .. kind.most)
                 \/ Len(i.v) < reads
            THEN {}
            ELSE {d.rec : d \in FoldLeftDomain(ReadField, start, SubSeq(i.v, 1, reads))}
       [] kind.k = "opt" -> {{x} : x \in Read(kind.of, i)}
       [] kind.k = "null" -> IF i.m = "null" THEN {{}} ELSE {{x} : x \in Read(kind.of, i)}
       [] kind.k \in {"list", "some"} ->
            IF i.m # "array" \/ (kind.k = "some" /\ i.v = <<>>) THEN {}
            ELSE FoldLeft(Keep, {<<>>}, i.v)
       [] OTHER -> ReadPlain(kind.k, i)

=============================================================================
