------------------------------- MODULE RowHash -------------------------------
(***************************************************************************)
(* What goes into a row hash (witchhat-core/src/hash.rs).  A cell is the   *)
(* little-endian bytes of its value, or Null.  xxh3 and the combiner of    *)
(* column hashes are taken to be free of collisions, so a digest stands    *)
(* for the bytes fed to it and a row hash for the sequence of its column   *)
(* hashes: what can still collide here collides in the code, whatever the  *)
(* hash function, because the same bytes are fed to it.                    *)
(***************************************************************************)
EXTENDS Integers, Sequences, FiniteSets

CONSTANT Null       \* a null cell

(* One tag byte per type; the two widths of string and binary share one. *)
Tags == [Boolean |-> 1,
         Int8 |-> 2, Int16 |-> 3, Int32 |-> 4, Int64 |-> 5,
         UInt8 |-> 6, UInt16 |-> 7, UInt32 |-> 8, UInt64 |-> 9,
         Float32 |-> 10, Float64 |-> 11,
         Utf8 |-> 12, LargeUtf8 |-> 12, Binary |-> 13, LargeBinary |-> 13,
         Date32 |-> 14, Date64 |-> 15, Time32 |-> 16, Time64 |-> 17,
         Timestamp |-> 18, Decimal128 |-> 19, Decimal256 |-> 20]

(* A type is a name and the bytes of its parameters: the time unit (0 to 3 *)
(* from seconds to nanoseconds) and the timezone, or precision and scale.  *)
Supported(type) ==
    /\ type.name \in DOMAIN Tags
    /\ type.name = "Time32" => type.param[1] \in {0, 1}
    /\ type.name = "Time64" => type.param[1] \in {2, 3}

(* The bytes of a value; text and binary values have any number, and types *)
(* without parameters.                                                     *)
Widths == [Boolean |-> 1, Int8 |-> 1, Int16 |-> 2, Int32 |-> 4, Int64 |-> 8,
           UInt8 |-> 1, UInt16 |-> 2, UInt32 |-> 4, UInt64 |-> 8,
           Float32 |-> 4, Float64 |-> 8, Date32 |-> 4, Date64 |-> 8, Time32 |-> 4, Time64 |-> 8,
           Timestamp |-> 8, Decimal128 |-> 16, Decimal256 |-> 32]

Bytes == 0..255

IsType(type) ==
    /\ type.param \in Seq(Bytes)
    /\ type.name \in DOMAIN Tags \ DOMAIN Widths => type.param = <<>>

CellsOf(type) ==
    {Null} \cup (IF type.name \in DOMAIN Widths THEN [1..Widths[type.name] -> Bytes]
                 ELSE Seq(Bytes))

NullIsNoValue == Null \notin Seq(Bytes)

(* The tag alone. *)
TagOnly(type) == <<Tags[type.name]>>

TypeKey(type) == <<Tags[type.name]>> \o type.param

-----------------------------------------------------------------------------
(* IEEE 754, least significant byte first. *)
IsNaN32(b) == b[4] % 128 = 127 /\ b[3] >= 128 /\ ~ (b[3] = 128 /\ b[2] = 0 /\ b[1] = 0)
IsNaN64(b) ==
    /\ b[8] % 128 = 127 /\ b[7] >= 240
    /\ ~ (b[7] = 240 /\ \A k \in 1..6 : b[k] = 0)

IsZero(b) == b[Len(b)] \in {0, 128} /\ \A k \in 1..(Len(b) - 1) : b[k] = 0

Zero(width) == [k \in 1..width |-> 0]
NaN32 == <<0, 0, 192, 127>>
NaN64 == <<0, 0, 0, 0, 0, 0, 248, 127>>

(* The float's own bits. *)
BitPattern(type, b) == b

(* Every NaN becomes one, and -0.0 becomes 0.0. *)
Canonical(type, b) ==
    CASE type.name = "Float32" /\ IsNaN32(b) -> NaN32
      [] type.name = "Float64" /\ IsNaN64(b) -> NaN64
      [] type.name \in {"Float32", "Float64"} /\ IsZero(b) -> Zero(Len(b))
      [] OTHER -> b

-----------------------------------------------------------------------------
ValueHash(key, bytes) == key \o bytes

NullHash(key) == ValueHash(key, <<0>>)

CellHash(type, cell) ==
    IF cell = Null THEN NullHash(TypeKey(type))
    ELSE ValueHash(TypeKey(type), Canonical(type, cell))

Seed == <<>>

(* combine: the order of the columns matters. *)
Combine(acc, hash) == Append(acc, hash)

(* Row hashes combined by exclusive or: equal ones cancel out. *)
TableFingerprintXor(hashes) ==
    {hashes[i] : i \in {j \in 1..Len(hashes) :
        Cardinality({k \in 1..Len(hashes) : hashes[k] = hashes[j]}) % 2 = 1}}

(* table_fingerprint: the row hashes added up, in no order. *)
TableFingerprint(hashes) ==
    [h \in {hashes[i] : i \in 1..Len(hashes)} |->
        Cardinality({i \in 1..Len(hashes) : hashes[i] = h})]
=============================================================================
