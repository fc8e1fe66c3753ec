------------------------------ MODULE Dynamic -------------------------------
(***************************************************************************)
(* Values of the type dynamic_t, their conversion from and to static types *)
(* and the encoding of both for the wire.  Strings and keys are numbers,   *)
(* a double is counted in halves, and integers have few bits.              *)
(***************************************************************************)
EXTENDS Integers, Sequences, FiniteSets, SequencesExt

CONSTANTS
  Bits            \* width of int_t and uint_t

ASSUME BitsAssumption == Bits \in Nat \ {0}

VARIABLE
  sample          \* what is looked at: values and a type

\* A value of the variant: its kind and what it holds.
Null == <<"null">>
\* A type: its name and its parameters.
Bool == <<"bool">>
Signed(w) == <<"int", w>>
Unsigned(w) == <<"uint", w>>
Double == <<"double">>
String == <<"string">>
Vector(t) == <<"vector", t>>
Tuple(ts) == <<"tuple", ts>>
Dict(t) == <<"map", t>>
Optional(t) == <<"optional", t>>
AnyType == <<"dynamic">>

Ok(x) == <<"ok", x>>
Thrown == <<"throw">>

\* All results of a function or sequence, or the first failure.
Join(results) ==
  IF \E i \in DOMAIN results : results[i] = Thrown THEN Thrown ELSE Ok([i \in DOMAIN results |-> results[i][2]])

Power2[n \in Nat] == IF n = 0 THEN 1 ELSE 2 * Power2[n - 1]

\* What is left of a number in an integer of few bits.
Narrow(n, t) ==
  LET r == n % Power2[t[2]]
  IN  IF t[1] = "int" /\ r >= Power2[t[2] - 1] THEN r - Power2[t[2]] ELSE r

\* A double to an integer goes towards zero.
Truncated(halves) == IF halves >= 0 THEN halves \div 2 ELSE -((-halves) \div 2)

-----------------------------------------------------------------------------
RECURSIVE Construct(_, _)
ConstructVector(x, t) == [i \in DOMAIN x |-> Construct(x[i], t)]

\* copy_tuple_to_vector: one element after the other.
ConstructTuple(x, ts) == [i \in 1 .. Len(ts) |-> Construct(x[i], ts[i])]

ConstructMap(x, t) == [k \in DOMAIN x |-> Construct(x[k], t)]

ConstructOptional(x, t) == IF x = <<>> THEN Null ELSE Construct(x[1], t)

\* dynamic_constructor: a static value into the variant.
Construct(x, t) ==
  CASE t[1] \in {"bool", "int", "uint", "double", "string"} -> <<t[1], x>>
    [] t[1] = "vector" -> <<"array", ConstructVector(x, t[2])>>
    [] t[1] = "tuple" -> <<"array", ConstructTuple(x, t[2])>>
    [] t[1] = "map" -> <<"object", ConstructMap(x, t[2])>>
    [] t[1] = "optional" -> ConstructOptional(x, t[2])
    [] t[1] = "dynamic" -> x

Is(d, kind) == d[1] = kind
\* get<T>(): throws if the variant is of another kind.
As(d, kind) == IF Is(d, kind) THEN Ok(d[2]) ELSE Thrown

\* The converter of arithmetic types other than bool, and of enumerations.
Number(d, t) ==
  CASE Is(d, "int") \/ Is(d, "uint") -> Ok(IF t = Double THEN 2 * d[2] ELSE Narrow(d[2], t))
    [] Is(d, "double") -> Ok(IF t = Double THEN d[2] ELSE Narrow(Truncated(d[2]), t))
    [] OTHER -> Thrown

RECURSIVE Convert(_, _)
ConvertVector(d, t) == IF Is(d, "array") THEN Join([i \in DOMAIN d[2] |-> Convert(d[2][i], t)]) ELSE Thrown

\* A tuple or a pair; any other number of elements is a bad_cast.
ConvertTuple(d, ts) ==
  IF ~Is(d, "array") THEN Thrown
  ELSE IF Len(d[2]) # Len(ts) THEN Thrown
  ELSE Join([i \in DOMAIN ts |-> Convert(d[2][i], ts[i])])

ConvertMap(d, t) == IF Is(d, "object") THEN Join([k \in DOMAIN d[2] |-> Convert(d[2][k], t)]) ELSE Thrown

\* to<T>(): dynamic_converter<T>::convert().
Convert(d, t) ==
  CASE t[1] \in {"bool", "string"} -> As(d, t[1])
    [] t[1] \in {"int", "uint", "double"} -> Number(d, t)
    [] t[1] = "vector" -> ConvertVector(d, t[2])
    [] t[1] = "tuple" -> ConvertTuple(d, t[2])
    [] t[1] = "map" -> ConvertMap(d, t[2])
    [] t[1] = "dynamic" -> Ok(d)

RECURSIVE Convertible(_, _)
\* convertible_to<T>().
Convertible(d, t) ==
  CASE t[1] \in {"bool", "string"} -> Is(d, t[1])
    [] t[1] \in {"int", "uint", "double"} -> \E kind \in {"int", "uint", "double"} : Is(d, kind)
    [] t[1] = "vector" -> IF Is(d, "array") THEN \A i \in DOMAIN d[2] : Convertible(d[2][i], t[2]) ELSE FALSE
    [] t[1] = "tuple" ->
         IF Is(d, "array")
         THEN Len(d[2]) = Len(t[2]) /\ \A i \in DOMAIN t[2] : Convertible(d[2][i], t[2][i]) ELSE FALSE
    [] t[1] = "map" -> IF Is(d, "object") THEN \A k \in DOMAIN d[2] : Convertible(d[2][k], t[2]) ELSE FALSE
    [] t[1] = "dynamic" -> TRUE

\* Two of one kind are not compared at all: the left one is taken for the
\* answer.  Of two kinds, the signed one must not be negative.
EqualNumbers(a, b) == IF a[1] = b[1] THEN a[2] # 0 ELSE a[2] >= 0 /\ b[2] >= 0 /\ a[2] = b[2]

RECURSIVE Equal(_, _)
\* operator==.
Equal(a, b) ==
  CASE {a[1], b[1]} \subseteq {"int", "uint"} -> EqualNumbers(a, b)
    [] a[1] # b[1] -> FALSE
    [] a[1] = "null" -> TRUE
    [] a[1] = "array" -> DOMAIN a[2] = DOMAIN b[2] /\ \A i \in DOMAIN a[2] : Equal(a[2][i], b[2][i])
    [] a[1] = "object" -> DOMAIN a[2] = DOMAIN b[2] /\ \A k \in DOMAIN a[2] : Equal(a[2][k], b[2][k])
    [] OTHER -> a[2] = b[2]

-----------------------------------------------------------------------------
\* An integer on the wire: msgpack tells the sign, not the type.
PackNumber(n) == IF n >= 0 THEN <<"positive", n>> ELSE <<"negative", n>>
Keys(x) == SetToSortSeq(DOMAIN x, <)

RECURSIVE PackDynamic(_)
\* type_traits<dynamic_t>::pack().
PackDynamic(d) ==
  CASE d[1] = "null" -> <<"nil">>
    [] d[1] \in {"int", "uint"} -> PackNumber(d[2])
    [] d[1] = "string" -> <<"raw", d[2]>>
    [] d[1] = "array" -> <<"array", [i \in DOMAIN d[2] |-> PackDynamic(d[2][i])]>>
    [] d[1] = "object" ->
         <<"map", [i \in DOMAIN Keys(d[2]) |-> <<<<"raw", Keys(d[2])[i]>>, PackDynamic(d[2][Keys(d[2])[i]])>>]>>
    [] OTHER -> d

\* The entries of a map, of which one wins where keys are repeated; one that
\* is not understood is enough to refuse the map.
Entries(pairs, Key(_), Value(_), Winner(_)) ==
  IF \E i \in DOMAIN pairs : Thrown \in {Key(pairs[i][1]), Value(pairs[i][2])} THEN Thrown
  ELSE Ok([k \in {Key(pairs[i][1])[2] : i \in DOMAIN pairs} |->
             Value(pairs[Winner({i \in DOMAIN pairs : Key(pairs[i][1])[2] = k})][2])[2]])

\* Mutant: every integer of the wire is held as a signed one.
UnpackPositiveSigned(n) == <<"int", Narrow(n, Signed(Bits))>>

\* POSITIVE_INTEGER, whatever the type was of what was packed.
UnpackPositive(n) == <<"uint", Narrow(n, Unsigned(Bits))>>

RECURSIVE UnpackDynamic(_)
\* type_traits<dynamic_t>::unpack(); the keys of a map must be strings, and the
\* last of equal ones wins, by operator[].
UnpackDynamic(o) ==
  CASE o[1] = "nil" -> Ok(Null)
    [] o[1] = "positive" -> Ok(UnpackPositive(o[2]))
    [] o[1] = "negative" -> Ok(<<"int", o[2]>>)
    [] o[1] = "raw" -> Ok(<<"string", o[2]>>)
    [] o[1] = "array" ->
         LET r == Join([i \in DOMAIN o[2] |-> UnpackDynamic(o[2][i])])
         IN  IF r = Thrown THEN Thrown ELSE Ok(<<"array", r[2]>>)
    [] o[1] = "map" ->
         LET r == Entries(o[2], LAMBDA k : As(k, "raw"), LAMBDA v : UnpackDynamic(v), Max)
         IN  IF r = Thrown THEN Thrown ELSE Ok(<<"object", r[2]>>)
    [] OTHER -> Ok(o)

RECURSIVE Pack(_, _)
PackString(x) == <<"raw", x>>
PackTuple(x, ts) == <<"array", [i \in DOMAIN ts |-> Pack(x[i], ts[i])]>>
\* type_traits<T>::pack(); an enumeration is packed as its underlying type.
Pack(x, t) ==
  CASE t[1] \in {"bool", "double"} -> <<t[1], x>>
    [] t[1] \in {"int", "uint"} -> PackNumber(x)
    [] t[1] = "string" -> PackString(x)
    [] t[1] = "vector" -> <<"array", [i \in DOMAIN x |-> Pack(x[i], t[2])]>>
    [] t[1] = "tuple" -> PackTuple(x, t[2])
    [] t[1] = "map" -> <<"map", [i \in DOMAIN Keys(x) |-> <<PackString(Keys(x)[i]), Pack(x[Keys(x)[i]], t[2])>>]>>
    [] t[1] = "optional" -> IF x = <<>> THEN <<"nil">> ELSE Pack(x[1], t[2])
    [] t[1] = "dynamic" -> PackDynamic(x)

RECURSIVE Unpack(_, _)
\* msgpack refuses a number that does not fit.
UnpackNumber(o, t) ==
  IF o[1] \in {"positive", "negative"} THEN (IF Narrow(o[2], t) = o[2] THEN Ok(o[2]) ELSE Thrown) ELSE Thrown

UnpackVector(o, t) == IF Is(o, "array") THEN Join([i \in DOMAIN o[2] |-> Unpack(o[2][i], t)]) ELSE Thrown

\* What is more than the elements is not looked at.
UnpackTuple(o, ts) ==
  IF ~Is(o, "array") THEN Thrown
  ELSE IF Len(o[2]) < Len(ts) THEN Thrown ELSE Join([i \in DOMAIN ts |-> Unpack(o[2][i], ts[i])])

\* The first of equal keys wins, by insert().
UnpackMap(o, t) ==
  IF Is(o, "map") THEN Entries(o[2], LAMBDA k : Unpack(k, String), LAMBDA v : Unpack(v, t), Min) ELSE Thrown

UnpackOptional(o, t) ==
  IF Is(o, "nil") THEN Ok(<<>>)
  ELSE LET r == Unpack(o, t) IN IF r = Thrown THEN Thrown ELSE Ok(<<r[2]>>)

\* type_traits<T>::unpack().
Unpack(o, t) ==
  CASE t[1] \in {"bool", "double"} -> As(o, t[1])
    [] t[1] \in {"int", "uint"} -> UnpackNumber(o, t)
    [] t[1] = "string" -> As(o, "raw")
    [] t[1] = "vector" -> UnpackVector(o, t[2])
    [] t[1] = "tuple" -> UnpackTuple(o, t[2])
    [] t[1] = "map" -> UnpackMap(o, t[2])
    [] t[1] = "optional" -> UnpackOptional(o, t[2])
    [] t[1] = "dynamic" -> UnpackDynamic(o)

-----------------------------------------------------------------------------
Integral(w, sign) == IF sign THEN -Power2[w - 1] .. Power2[w - 1] - 1 ELSE 0 .. Power2[w] - 1

RECURSIVE ValuesOf(_, _)
\* The values of a type, containers having at most two elements; those of
\* dynamic_t are given.
ValuesOf(t, dynamics) ==
  CASE t[1] = "bool" -> BOOLEAN
    [] t[1] \in {"int", "uint"} -> Integral(t[2], t[1] = "int")
    [] t[1] = "double" -> {-1, 0, 1, 3}
    [] t[1] = "string" -> {1, 2}
    [] t[1] = "vector" -> UNION {[1 .. n -> ValuesOf(t[2], dynamics)] : n \in 0 .. 2}
    [] t[1] = "tuple" ->
         FoldLeft(LAMBDA xs, u : {Append(x, y) : x \in xs, y \in ValuesOf(u, dynamics)}, {<<>>}, t[2])
    [] t[1] = "map" -> UNION {[K -> ValuesOf(t[2], dynamics)] : K \in SUBSET {1, 2}}
    [] t[1] = "optional" -> {<<>>} \cup {<<x>> : x \in ValuesOf(t[2], dynamics)}
    [] t[1] = "dynamic" -> dynamics

\* The values of the variant that are not containers, and those that hold
\* at most two of them.
Scalars ==
  {Null, <<"bool", TRUE>>, <<"double", 1>>, <<"string", 1>>}
    \cup {<<"int", n>> : n \in Integral(Bits, TRUE)} \cup {<<"uint", n>> : n \in Integral(Bits, FALSE)}
Containers(elements) ==
  {<<"array", x>> : x \in ValuesOf(Vector(AnyType), elements)}
    \cup {<<"object", x>> : x \in ValuesOf(Dict(AnyType), elements)}

\* A value and a type it may be converted to, a typed value, or two values.
DynamicInit(types, nested) ==
  \/ \E t \in types, d \in Scalars \cup Containers(nested) : sample = [kind |-> "convert", value |-> d, type |-> t]
  \/ \E t \in types \cup {Optional(u) : u \in types} :
       \E x \in ValuesOf(t, Scalars \cup Containers({})) : sample = [kind |-> "pack", value |-> x, type |-> t]
  \/ \E a, b \in Scalars \cup Containers(nested) : sample = [kind |-> "equal", left |-> a, right |-> b]

-----------------------------------------------------------------------------
\* What a value says, whatever type of integer holds it.
RECURSIVE Denotes(_)
Denotes(d) ==
  CASE d[1] \in {"int", "uint"} -> <<"number", d[2]>>
    [] d[1] \in {"array", "object"} -> <<d[1], [i \in DOMAIN d[2] |-> Denotes(d[2][i])]>>
    [] OTHER -> d

\* Two integers of one kind are met when two values are compared.
RECURSIVE MeetsOneKind(_, _)
MeetsOneKind(a, b) ==
  IF a[1] # b[1] THEN FALSE
  ELSE \/ a[1] \in {"int", "uint"}
       \/ a[1] \in {"array", "object"} /\ \E i \in DOMAIN a[2] \cap DOMAIN b[2] : MeetsOneKind(a[2][i], b[2][i])

\* convertible_to<T>() promises exactly that to<T>() will not throw, at every
\* depth of containers: callers test the one and then rely on the other.
ConvertibleIsExact ==
  sample.kind = "convert" => (Convertible(sample.value, sample.type) <=> Convert(sample.value, sample.type) # Thrown)

\* A typed value has the encoding of the dynamic_t made of it, so that one
\* side of the wire may be typed and the other one dynamic.
OneEncoding ==
  sample.kind = "pack" =>
    Pack(sample.value, sample.type) = PackDynamic(Construct(sample.value, sample.type))

\* What is packed by a typed sender is the value the receiver has, typed or
\* by way of dynamic_t and to<T>(), although the wire does not keep the
\* signedness of a type.  (An optional of dynamic_t that holds null is lost.)
WireRoundTrip ==
  sample.kind = "pack" =>
    \E o \in {Pack(sample.value, sample.type)} :
      CASE sample.type = AnyType -> Denotes(Unpack(o, AnyType)[2]) = Denotes(sample.value)
        [] sample.type[1] = "optional" ->
             sample.type[2] = AnyType \/ Unpack(o, sample.type) = Ok(sample.value)
        [] OTHER -> /\ Unpack(o, sample.type) = Ok(sample.value)
                    /\ Convert(UnpackDynamic(o)[2], sample.type) = Ok(sample.value)

\* operator== tells whether two values say the same, where the integers that
\* meet are of different kinds; those of one kind it does not compare.
EqualityOfValues ==
  sample.kind = "equal" =>
    MeetsOneKind(sample.left, sample.right)
      \/ (Equal(sample.left, sample.right) <=> Denotes(sample.left) = Denotes(sample.right))

\* A value is the same in each of its forms, typed, dynamic or on the wire:
\* what is tested, compared, converted and sent agrees with what it denotes.
ValuesKept == ConvertibleIsExact /\ EqualityOfValues /\ OneEncoding /\ WireRoundTrip
=============================================================================
