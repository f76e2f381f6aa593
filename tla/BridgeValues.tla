---------------------------- MODULE BridgeValues ----------------------------
(***************************************************************************)
(* Values across the bridge of the Node package (runtime.js): lowerValue   *)
(* checks a value of JavaScript against a descriptor and turns it into one *)
(* of the module, liftValue turns one back.  Integers have Word bits for   *)
(* i32 and twice as many for i64, Small for the narrow types.  An object   *)
(* of the module is known in JavaScript by a handle that remembers its     *)
(* brand and the instance of the module it is from.                        *)
(***************************************************************************)
EXTENDS Integers, Sequences, SequencesExt

CONSTANTS
    Word, Small,
    Instances,          \* of the module
    Descriptors,
    Null, Refused       \* nothing has crossed; a TypeError

VARIABLES way, descriptor, given, instance, crossed
valueVars == <<way, descriptor, given, instance, crossed>>

Bits(type) == CASE type \in {"Int", "UInt"} -> Word [] type \in {"Int64", "UInt64"} -> 2 * Word [] OTHER -> Small
Unsigned(type) == type \in {"UInt", "UInt64", "UInt8"}
RangeOf(type) == IF Unsigned(type) THEN 0..(2 ^ Bits(type) - 1) ELSE -(2 ^ (Bits(type) - 1))..(2 ^ (Bits(type) - 1) - 1)

\* An i32 or i64 comes out of the module as a signed number.
Stored(type) == IF type \in {"Int64", "UInt64"} THEN 2 * Word ELSE Word
Signed(n, bits) == LET m == n % 2 ^ bits IN IF m < 2 ^ (bits - 1) THEN m ELSE m - 2 ^ bits

\* Descriptors: numbers by type, the rest by kind, with an item where they have one.
RECURSIVE Lower(_, _, _), Lift(_, _, _)

LowerItem(d, v, w) == LET x == Lower(d.item, v, w) IN IF x = Refused THEN Refused ELSE <<x>>

Lower(d, v, w) ==
    CASE d.kind = "number" -> IF v.t = "number" /\ v.v \in RangeOf(d.type) THEN [i |-> Signed(v.v, Stored(d.type))] ELSE Refused
      [] d.kind = "array" ->
            IF v.t # "array" THEN Refused
            ELSE LET items == [i \in DOMAIN v.v |-> Lower(d.item, v.v[i], w)]
                 IN  IF Contains(items, Refused) THEN Refused ELSE [a |-> items]
      [] d.kind = "option" -> IF v.t \in {"null", "undefined"} THEN [o |-> <<>>]
                              ELSE LET x == LowerItem(d, v, w) IN IF x = Refused THEN Refused ELSE [o |-> x]
      [] d.kind = "optional" -> IF v.t = "undefined" THEN [o |-> <<>>]
                                ELSE LET x == LowerItem(d, v, w) IN IF x = Refused THEN Refused ELSE [o |-> x]
      [] d.kind = "tuple" ->
            IF v.t # "array" \/ Len(v.v) # Len(d.items) THEN Refused
            ELSE LET items == [i \in DOMAIN v.v |-> Lower(d.items[i], v.v[i], w)]
                 IN  IF Contains(items, Refused) THEN Refused ELSE [a |-> items]
      [] d.kind = "named" -> IF v.t = "handle" /\ v.brand = d.brand /\ v.wasm = w THEN [raw |-> v.raw] ELSE Refused
      [] d.kind \in {"result", "function"} -> Refused

\* UInt >>> 0, and BigInt.asUintN.
AsNumber(type, n) == IF type \in {"UInt", "UInt64"} THEN n % 2 ^ Bits(type) ELSE n

Lift(d, x, w) ==
    CASE d.kind = "number" -> [t |-> "number", v |-> AsNumber(d.type, x.i)]
      [] d.kind = "array" -> [t |-> "array", v |-> [i \in DOMAIN x.a |-> Lift(d.item, x.a[i], w)]]
      [] d.kind = "option" -> IF x.o = <<>> THEN [t |-> "null"] ELSE Lift(d.item, x.o[1], w)
      [] d.kind = "tuple" -> [t |-> "array", v |-> [i \in DOMAIN x.a |-> Lift(d.items[i], x.a[i], w)]]
      [] d.kind = "named" -> [t |-> "handle", raw |-> x.raw, brand |-> d.brand, wasm |-> w]
      [] d.kind = "result" -> [t |-> "result", ok |-> x.ok, v |-> Lift(IF x.ok THEN d.item ELSE d.err, x.r, w)]
      [] OTHER -> Refused

-----------------------------------------------------------------------------
\* A call takes a value of JavaScript in, an answer comes out.
CONSTANTS JsValues(_), WasmValues(_)   \* those that are tried with a descriptor

ValuesInit ==
    /\ descriptor \in Descriptors /\ instance \in Instances /\ way \in {"in", "out"}
    /\ given \in IF way = "in" THEN JsValues(descriptor) ELSE WasmValues(descriptor)
    /\ crossed = Null

Cross ==
    /\ crossed = Null
    /\ crossed' = IF way = "in" THEN Lower(descriptor, given, instance) ELSE Lift(descriptor, given, instance)
    /\ UNCHANGED <<way, descriptor, given, instance>>

ValuesNext == Cross

RECURSIVE Canonical(_, _), IsOf(_, _), Handles(_)

\* What counts as the same value: an option that is undefined is null.
Canonical(d, v) ==
    CASE d.kind \in {"option", "optional"} -> IF v.t = "undefined" THEN [t |-> "null"] ELSE IF v.t = "null" THEN v ELSE Canonical(d.item, v)
      [] d.kind = "array" -> [v EXCEPT !.v = [i \in DOMAIN v.v |-> Canonical(d.item, v.v[i])]]
      [] d.kind = "tuple" -> [v EXCEPT !.v = [i \in DOMAIN v.v |-> Canonical(d.items[i], v.v[i])]]
      [] OTHER -> v
Handles(v) == CASE v.t = "handle" -> {v} [] v.t = "array" -> UNION {Handles(v.v[i]) : i \in DOMAIN v.v} [] OTHER -> {}
IsOf(v, w) == \A h \in Handles(v) : h.wasm = w

\* What the module takes is what was given: a number in the range of its type
\* comes back as it is, and no object is one of another instance or brand.
\* What the module answers can be given back to it, and to no other.
ValuesCross ==
    crossed # Null =>
        /\ way = "in" /\ crossed # Refused =>
            /\ IsOf(given, instance)
            /\ descriptor.kind # "optional" => Lift(descriptor, crossed, instance) = Canonical(descriptor, given)
        /\ way = "out" /\ descriptor.kind # "result" =>
            /\ Lower(descriptor, crossed, instance) = given
            /\ \A w \in Instances \ {instance} :
                Handles(crossed) # {} => Lower(descriptor, crossed, w) = Refused
=============================================================================
