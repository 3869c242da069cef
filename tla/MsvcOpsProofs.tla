---------------------------- MODULE MsvcOpsProofs ----------------------------
(***************************************************************************)
(* Facts about the conversions of Words and the operators of MsvcOps, for  *)
(* every width class: what each MSVC function leaves in the location is a  *)
(* value of the signed intrinsic type, and what it returns is a value of   *)
(* T.                                                                      *)
(***************************************************************************)
EXTENDS MsvcOps, TLAPS

\* static_cast to the signed intrinsic type yields one of its values.
LEMMA ToSignedType ==
  ASSUME NEW i \in Int
  PROVE  ToSigned(i) \in SWord /\ ToSigned(i) \in Int
  BY PowerAssumption DEF ToSigned, SWord

\* static_cast<T> yields a bit pattern of T.
LEMMA ToUnsignedType ==
  ASSUME NEW i \in Int
  PROVE  ToUnsigned(i) \in Word /\ ToUnsigned(i) \in Nat
  BY PowerAssumption DEF ToUnsigned, Word

\* Converting to the signed type and back is the identity modulo 2^Bits.
LEMMA RoundTrip ==
  ASSUME NEW i \in Int
  PROVE  ToUnsigned(ToSigned(i)) = ToUnsigned(i)
  BY PowerAssumption DEF ToSigned, ToUnsigned

\* static_cast<T> of a value of T changes nothing.
LEMMA ToUnsignedWord ==
  ASSUME NEW v \in Word
  PROVE  ToUnsigned(v) = v
  BY PowerAssumption DEF ToUnsigned, Word

\* The signed intrinsic types are integers and T's patterns are naturals.
LEMMA WordsInt == SWord \subseteq Int /\ Word \subseteq Nat
  BY PowerAssumption DEF SWord, Word

\* A bit pattern of T is an integer.
LEMMA WordInt ==
  ASSUME NEW x \in Word
  PROVE  x \in Int
  BY PowerAssumption DEF Word

\* Every MSVC function maps a location content and an argument to a
\* location content and a result of the right type.
LEMMA OpsType ==
  ASSUME NEW s \in SWord, NEW v \in Word, NEW e \in Word
  PROVE  /\ atomic_load(s).mem \in SWord /\ atomic_load(s).ret \in Word
         /\ atomic_store(s, v).mem \in SWord
         /\ atomic_exchange(s, v).mem \in SWord
         /\ atomic_exchange(s, v).ret \in Word
         /\ atomic_fetch_add(s, v).mem \in SWord
         /\ atomic_fetch_add(s, v).ret \in Word
         /\ atomic_fetch_sub(s, v).mem \in SWord
         /\ atomic_fetch_sub(s, v).ret \in Word
         /\ atomic_xor_fetch(s, v).mem \in SWord
         /\ atomic_xor_fetch(s, v).ret \in Word
         /\ cas_interlocked(s, v, e).mem \in SWord
         /\ cas_interlocked(s, v, e).old_val \in Word
         /\ cas_compare(v, e).success \in BOOLEAN
         /\ cas_compare(v, e).expected \in Word
  <1> USE WordsInt
  <1>1. atomic_load(s).mem \in SWord /\ atomic_load(s).ret \in Word
    <2>1. ToUnsigned(s) \in Word /\ ToUnsigned(0) \in Word
      BY ToUnsignedType
    <2>2. BitOr(ToUnsigned(s), ToUnsigned(0)) \in Word
      BY <2>1, BitOpsAssumption
    <2>5. BitOr(ToUnsigned(s), ToUnsigned(0)) \in Int
      BY <2>2, WordInt, Zenon
    <2>3. ToSigned(BitOr(ToUnsigned(s), ToUnsigned(0))) \in SWord
      BY <2>5, ToSignedType
    <2>4. QED
      BY <2>3, ToUnsignedType DEF atomic_load, InterlockedOr
  <1>2. atomic_store(s, v).mem \in SWord /\ atomic_exchange(s, v).mem \in SWord
        /\ atomic_exchange(s, v).ret \in Word
    BY ToSignedType, ToUnsignedType
    DEF atomic_store, atomic_exchange, InterlockedExchange
  <1>3. \A w \in Word : atomic_fetch_add(s, w).mem \in SWord
                        /\ atomic_fetch_add(s, w).ret \in Word
    BY ToSignedType, ToUnsignedType DEF atomic_fetch_add, InterlockedExchangeAdd
  <1>4. NegateT(v) \in Word
    BY ToSignedType, ToUnsignedType DEF NegateT
  <1>5. atomic_xor_fetch(s, v).mem \in SWord /\ atomic_xor_fetch(s, v).ret \in Word
    <2>1. ToUnsigned(s) \in Word /\ ToUnsigned(ToSigned(v)) \in Word
      BY ToSignedType, ToUnsignedType
    <2>2. BitXor(ToUnsigned(s), ToUnsigned(ToSigned(v))) \in Word
          /\ BitXor(ToUnsigned(s), v) \in Word
      BY <2>1, BitOpsAssumption
    <2>5. BitXor(ToUnsigned(s), ToUnsigned(ToSigned(v))) \in Int
      BY <2>2, WordInt, Zenon
    <2>3. ToSigned(BitXor(ToUnsigned(s), ToUnsigned(ToSigned(v)))) \in SWord
      BY <2>5, ToSignedType
    <2>4. QED
      BY <2>2, <2>3 DEF atomic_xor_fetch, InterlockedXor
  <1>6. cas_interlocked(s, v, e).mem \in SWord
        /\ cas_interlocked(s, v, e).old_val \in Word
    BY ToSignedType, ToUnsignedType DEF cas_interlocked, InterlockedCompareExchange
  <1>7. cas_compare(v, e).success \in BOOLEAN /\ cas_compare(v, e).expected \in Word
    BY DEF cas_compare
  <1>8. QED
    BY <1>1, <1>2, <1>3, <1>4, <1>5, <1>6, <1>7 DEF atomic_fetch_sub

\* static_cast<T> then back to the signed type gives back the content.
LEMMA SignedRoundTrip ==
  ASSUME NEW s \in SWord
  PROVE  ToSigned(ToUnsigned(s)) = s
  BY PowerAssumption DEF ToSigned, ToUnsigned, SWord

\* A value of T survives the trip through the signed intrinsic type.
LEMMA UnsignedRoundTrip ==
  ASSUME NEW v \in Word
  PROVE  ToUnsigned(ToSigned(v)) = v
  BY PowerAssumption DEF ToSigned, ToUnsigned, Word

\* The intrinsic's comparison of signed values is the comparison of the
\* bit patterns of T.
LEMMA CastInjective ==
  ASSUME NEW s \in SWord, NEW e \in Word
  PROVE  s = ToSigned(e) <=> ToUnsigned(s) = e
  BY PowerAssumption DEF ToSigned, ToUnsigned, Word, SWord

\* _InterlockedExchangeAdd on the signed type adds modulo 2^Bits.
LEMMA AddWraps ==
  ASSUME NEW s \in SWord, NEW v \in Word
  PROVE  ToUnsigned(ToSigned(s + ToSigned(v))) = (ToUnsigned(s) + v) % Mod
  BY PowerAssumption DEF ToSigned, ToUnsigned, Word, SWord

\* Adding the negation, even of the most negative value, subtracts modulo
\* 2^Bits.
LEMMA SubWraps ==
  ASSUME NEW s \in SWord, NEW v \in Word
  PROVE  ToUnsigned(ToSigned(s + ToSigned(NegateT(v))))
           = (ToUnsigned(s) - v) % Mod
  BY PowerAssumption DEF ToSigned, ToUnsigned, Word, SWord, NegateT

\* What every MSVC function does, read as bit patterns of T: the new
\* content and the result of the corresponding GCC builtin.
LEMMA OpsMeaning ==
  ASSUME NEW s \in SWord, NEW v \in Word, NEW e \in Word
  PROVE  /\ ToUnsigned(atomic_load(s).mem) = ToUnsigned(s)
         /\ atomic_load(s).ret = ToUnsigned(s)
         /\ ToUnsigned(atomic_store(s, v).mem) = v
         /\ ToUnsigned(atomic_exchange(s, v).mem) = v
         /\ atomic_exchange(s, v).ret = ToUnsigned(s)
         /\ ToUnsigned(atomic_fetch_add(s, v).mem) = (ToUnsigned(s) + v) % Mod
         /\ atomic_fetch_add(s, v).ret = ToUnsigned(s)
         /\ ToUnsigned(atomic_fetch_sub(s, v).mem) = (ToUnsigned(s) - v) % Mod
         /\ atomic_fetch_sub(s, v).ret = ToUnsigned(s)
         /\ ToUnsigned(atomic_xor_fetch(s, v).mem) = BitXor(ToUnsigned(s), v)
         /\ atomic_xor_fetch(s, v).ret = BitXor(ToUnsigned(s), v)
         /\ ToUnsigned(cas_interlocked(s, v, e).mem)
              = (IF ToUnsigned(s) = e THEN v ELSE ToUnsigned(s))
         /\ cas_interlocked(s, v, e).old_val = ToUnsigned(s)
  <1> USE WordsInt
  <1>1. ToUnsigned(s) \in Word /\ ToUnsigned(0) = 0
    BY ToUnsignedType, PowerAssumption DEF ToUnsigned
  <1>2. ToUnsigned(atomic_load(s).mem) = ToUnsigned(s)
        /\ atomic_load(s).ret = ToUnsigned(s)
    <2>1. BitOr(ToUnsigned(s), ToUnsigned(0)) = ToUnsigned(s)
      BY <1>1, BitOpsAssumption
    <2>2. ToUnsigned(ToSigned(ToUnsigned(s))) = ToUnsigned(s)
      BY <1>1, UnsignedRoundTrip
    <2>3. QED
      BY <2>1, <2>2 DEF atomic_load, InterlockedOr
  <1>3. /\ ToUnsigned(atomic_store(s, v).mem) = v
        /\ ToUnsigned(atomic_exchange(s, v).mem) = v
        /\ atomic_exchange(s, v).ret = ToUnsigned(s)
    BY UnsignedRoundTrip DEF atomic_store, atomic_exchange, InterlockedExchange
  <1>4. ToUnsigned(atomic_fetch_add(s, v).mem) = (ToUnsigned(s) + v) % Mod
        /\ atomic_fetch_add(s, v).ret = ToUnsigned(s)
    BY AddWraps DEF atomic_fetch_add, InterlockedExchangeAdd
  <1>5. ToUnsigned(atomic_fetch_sub(s, v).mem) = (ToUnsigned(s) - v) % Mod
        /\ atomic_fetch_sub(s, v).ret = ToUnsigned(s)
    BY SubWraps DEF atomic_fetch_sub, atomic_fetch_add, InterlockedExchangeAdd
  <1>6. ToUnsigned(atomic_xor_fetch(s, v).mem) = BitXor(ToUnsigned(s), v)
        /\ atomic_xor_fetch(s, v).ret = BitXor(ToUnsigned(s), v)
    <2>1. ToUnsigned(ToSigned(v)) = v
      BY UnsignedRoundTrip
    <2>2. BitXor(ToUnsigned(s), v) \in Word
      BY <1>1, BitOpsAssumption
    <2>3. ToUnsigned(ToSigned(BitXor(ToUnsigned(s), v))) = BitXor(ToUnsigned(s), v)
      BY <2>2, UnsignedRoundTrip
    <2>4. QED
      BY <2>1, <2>3 DEF atomic_xor_fetch, InterlockedXor
  <1>7. ToUnsigned(cas_interlocked(s, v, e).mem)
          = (IF ToUnsigned(s) = e THEN v ELSE ToUnsigned(s))
        /\ cas_interlocked(s, v, e).old_val = ToUnsigned(s)
    <2>1. s = ToSigned(e) <=> ToUnsigned(s) = e
      BY CastInjective
    <2>2. ToUnsigned(ToSigned(v)) = v
      BY UnsignedRoundTrip
    <2>3. QED
      BY <2>1, <2>2 DEF cas_interlocked, InterlockedCompareExchange
  <1>8. QED
    BY <1>2, <1>3, <1>4, <1>5, <1>6, <1>7

=============================================================================
