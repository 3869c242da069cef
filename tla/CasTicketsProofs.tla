--------------------------- MODULE CasTicketsProofs ---------------------------
(***************************************************************************)
(* No two increments of the shared counter get the same ticket, for every  *)
(* width, finite thread set and number of rounds that CapacityAssumption   *)
(* allows.  The proof strengthens TicketsUnique to TicketInv: the          *)
(* increments that have taken effect (Slots) number count plus the pending *)
(* compare-exchanges, and their tickets are distinct and below that        *)
(* number.  Since Slots lies in Threads \X 1..Rounds, there are at most    *)
(* 2^Bits of them, so the counter has not wrapped when it hands out the    *)
(* next ticket, and that ticket is fresh.                                  *)
(***************************************************************************)
EXTENDS CasCounterProofs

\* The number of increments that have taken effect.
NN == count + Cardinality(Pending)

\* The increments a thread can make.
AllSlots == Threads \X (1 .. Rounds)

\* How many increments thread a has taken, with tickets tk and pending
\* set P: the returned ones, and the one of a pending compare-exchange.
Height(tk, P, a) == Len(tk[a]) + (IF a \in P THEN 1 ELSE 0)

\* Slots and TicketOf over given values of the variables.
SlotsOf(tk, P) == {s \in AllSlots : s[2] <= Height(tk, P, s[1])}

TicketAt(tk, xx, s) == IF s[2] <= Len(tk[s[1]]) THEN tk[s[1]][s[2]] ELSE xx[s[1]]

\* The same heights give the same slots.
LEMMA SlotsSame ==
  ASSUME NEW tk, NEW P, NEW tk2, NEW P2,
         \A a \in Threads : Height(tk2, P2, a) = Height(tk, P, a)
  PROVE  SlotsOf(tk2, P2) = SlotsOf(tk, P)
  BY Zenon DEF SlotsOf, AllSlots

\* One thread a height higher, below Rounds, gives one slot more.
LEMMA SlotsUp ==
  ASSUME NEW tk, NEW P, NEW tk2, NEW P2, NEW t \in Threads,
         Height(tk, P, t) \in Nat, Height(tk, P, t) < Rounds,
         Height(tk2, P2, t) = Height(tk, P, t) + 1,
         \A a \in Threads \ {t} : Height(tk2, P2, a) = Height(tk, P, a)
  PROVE  SlotsOf(tk2, P2) = SlotsOf(tk, P) \cup {<<t, Height(tk, P, t) + 1>>}
  <1> DEFINE h == Height(tk, P, t)
  <1>1. Rounds \in Nat
    BY RoundsAssumption
  <1>2. <<t, h + 1>> \in AllSlots
    BY <1>1 DEF AllSlots
  <1>3. ASSUME NEW a \in Threads, NEW i \in 1 .. Rounds
        PROVE  <<a, i>> \in SlotsOf(tk2, P2)
                 <=> <<a, i>> \in SlotsOf(tk, P) \/ <<a, i>> = <<t, h + 1>>
    <2>1. CASE a = t
      <3>1. i \in Nat /\ h \in Nat /\ Height(tk2, P2, a) = h + 1
        BY <2>1
      <3>2. (i <= h + 1) <=> (i <= h \/ i = h + 1)
        BY <3>1
      <3>3. QED
        BY <2>1, <3>1, <3>2 DEF SlotsOf, AllSlots
    <2>2. CASE a # t
      BY <2>2 DEF SlotsOf, AllSlots
    <2>3. QED
      BY <2>1, <2>2
  <1>4. SlotsOf(tk2, P2) \subseteq AllSlots /\ SlotsOf(tk, P) \subseteq AllSlots
    BY Zenon DEF SlotsOf
  <1>5. QED
    BY <1>2, <1>3, <1>4 DEF AllSlots

\* There are at most 2^Bits increments in all, and the taken ones are
\* finitely many.
LEMMA SlotsFinite ==
  /\ IsFiniteSet(AllSlots)
  /\ Cardinality(AllSlots) <= Mod
  /\ IsFiniteSet(Slots)
  /\ Slots \subseteq AllSlots
  <1>1. IsFiniteSet(1 .. Rounds) /\ Cardinality(1 .. Rounds) = Rounds
    BY RoundsAssumption, FS_Interval
  <1>2. IsFiniteSet(AllSlots)
        /\ Cardinality(AllSlots) = Cardinality(Threads) * Rounds
    BY <1>1, ThreadsAssumption, FS_Product DEF AllSlots
  <1>3. Slots \subseteq AllSlots
    BY DEF Slots, AllSlots
  <1>4. QED
    BY <1>2, <1>3, FS_Subset, CapacityAssumption

\* A ticket is a value of T.
LEMMA TicketType ==
  ASSUME TypeOK, NEW s \in Slots
  PROVE  TicketOf(s) \in Word /\ TicketOf(s) \in Int
  <1>1. s[1] \in Threads /\ s[2] \in 1 .. Rounds
    BY DEF Slots
  <1>2. TicketOf(s) \in Word
    BY <1>1 DEF TypeOK, TicketOf
  <1>3. QED
    BY <1>2, WordInt

\* The next increment of a thread with a round left and no pending
\* compare-exchange is one it can make and has not taken.
LEMMA NewSlot ==
  ASSUME TypeOK, NEW t \in Threads, t \notin Pending,
         Len(tickets[t]) < Rounds
  PROVE  <<t, Len(tickets[t]) + 1>> \in AllSlots /\
         <<t, Len(tickets[t]) + 1>> \notin Slots
  <1> DEFINE n == <<t, Len(tickets[t]) + 1>>
  <1>0. Len(tickets[t]) \in Nat
    BY DEF TypeOK
  <1>1. n \in AllSlots
    BY <1>0, RoundsAssumption DEF AllSlots
  <1>2. ~(n[2] <= Len(tickets[n[1]]) + (IF n[1] \in Pending THEN 1 ELSE 0))
    BY <1>0
  <1>3. QED
    BY <1>1, <1>2 DEF Slots

\* The counter has not wrapped while some thread still has an increment
\* to make: 2^Bits increments at most, and this one is not yet taken.
LEMMA NoWrap ==
  ASSUME TicketInv, NEW t \in Threads, t \notin Pending,
         Len(tickets[t]) < Rounds
  PROVE  NN < Mod /\ ToUnsigned(smem) = NN
  <1> DEFINE n == <<t, Len(tickets[t]) + 1>>
  <1>1. n \in AllSlots /\ n \notin Slots
    BY NewSlot DEF TicketInv, CounterInv
  <1>2. IsFiniteSet(Slots) /\ Cardinality(Slots \cup {n}) = Cardinality(Slots) + 1
    BY <1>1, SlotsFinite, FS_AddElement
  <1>3. Cardinality(Slots \cup {n}) <= Cardinality(AllSlots)
    BY <1>1, SlotsFinite, FS_Subset
  <1>4. NN + 1 <= Mod /\ NN \in Nat
    <2>1. Cardinality(Slots) = NN /\ NN \in Nat
      BY PendingFinite DEF TicketInv, NN, CounterInv, TypeOK
    <2>2. Cardinality(AllSlots) <= Mod /\ Cardinality(AllSlots) \in Nat
      BY SlotsFinite, FS_CardinalityType
    <2>3. QED
      BY <1>2, <1>3, <2>1, <2>2, PowerAssumption
  <1>5. QED
    BY <1>4, PowerAssumption DEF TicketInv, CounterInv, NN

\* A step that changes neither the taken increments, their number nor
\* their tickets keeps them distinct and below that number.
LEMMA TicketsKeep ==
  ASSUME TicketInv, Slots' = Slots, NN' = NN,
         \A s \in Slots : TicketOf(s)' = TicketOf(s)
  PROVE  /\ Cardinality(Slots') = count' + Cardinality(Pending')
         /\ \A s \in Slots' : TicketOf(s)' < count' + Cardinality(Pending')
         /\ \A s1, s2 \in Slots' : s1 # s2 => TicketOf(s1)' # TicketOf(s2)'
  BY DEF TicketInv, NN

\* A step that takes one more increment and hands it the ticket NN.
LEMMA TicketsGrow ==
  ASSUME TicketInv, NEW n, n \notin Slots, Slots' = Slots \cup {n},
         NN' = NN + 1, TicketOf(n)' = NN,
         \A s \in Slots : TicketOf(s)' = TicketOf(s)
  PROVE  /\ Cardinality(Slots') = count' + Cardinality(Pending')
         /\ \A s \in Slots' : TicketOf(s)' < count' + Cardinality(Pending')
         /\ \A s1, s2 \in Slots' : s1 # s2 => TicketOf(s1)' # TicketOf(s2)'
  <1>1. NN \in Nat /\ \A s \in Slots : TicketOf(s) \in Int
    BY TicketType, PendingFinite DEF TicketInv, CounterInv, TypeOK, NN
  <1>2. Cardinality(Slots') = NN + 1
    BY SlotsFinite, FS_AddElement DEF TicketInv, NN
  <1>3. \A s \in Slots' : TicketOf(s)' < NN + 1
    BY <1>1 DEF TicketInv, NN
  <1>4. \A s1, s2 \in Slots' : s1 # s2 => TicketOf(s1)' # TicketOf(s2)'
    BY <1>1 DEF TicketInv, NN
  <1>5. QED
    BY <1>2, <1>3, <1>4 DEF NN

\* Every step keeps the tickets handed out distinct and below the
\* number of increments taken.
LEMMA TicketStep == TicketInv /\ [Next]_vars => TicketInv'
  <1> SUFFICES ASSUME TicketInv, [Next]_vars PROVE TicketInv'
    OBVIOUS
  <1>0. /\ CounterInv /\ CounterInv' /\ TypeOK /\ TypeOK'
        /\ IsFiniteSet(Pending) /\ NN \in Nat
    BY CounterStep, TypeStep, PendingFinite DEF TicketInv, CounterInv, TypeOK, NN
  <1> DEFINE LenOK(t) ==
               /\ Len(tickets[t]) <= Rounds
               /\ pc[t] # "idle" => Len(tickets[t]) < Rounds
             SlotsOK ==
               /\ Cardinality(Slots) = count + Cardinality(Pending)
               /\ \A s \in Slots : TicketOf(s) < count + Cardinality(Pending)
               /\ \A s1, s2 \in Slots : s1 # s2 => TicketOf(s1) # TicketOf(s2)
             H(a) == Height(tickets, Pending, a)
             H2(a) == Height(tickets', Pending', a)
  <1> SUFFICES (\A t \in Threads : LenOK(t)') /\ SlotsOK'
    BY <1>0 DEF TicketInv
  <1>01. \A t \in Threads : LenOK(t)
    BY DEF TicketInv
  <1>02. Rounds \in Nat
    BY RoundsAssumption
  <1>03. /\ tickets \in [Threads -> Seq(Word)] /\ x \in [Threads -> Word]
         /\ pc \in [Threads -> {"idle", "cas", "cas_cmp"}]
         /\ oldv \in [Threads -> Word]
    BY <1>0 DEF TypeOK
  <1>04. /\ tickets' \in [Threads -> Seq(Word)] /\ x' \in [Threads -> Word]
         /\ pc' \in [Threads -> {"idle", "cas", "cas_cmp"}]
         /\ oldv' \in [Threads -> Word]
    BY <1>0 DEF TypeOK
  <1>06. /\ Slots = SlotsOf(tickets, Pending)
         /\ Slots' = SlotsOf(tickets', Pending')
         /\ \A s : TicketOf(s) = TicketAt(tickets, x, s)
         /\ \A s : TicketOf(s)' = TicketAt(tickets', x', s)
    BY Zenon DEF Slots, SlotsOf, Height, AllSlots, TicketOf, TicketAt
  <1>07. count \in Nat /\ Cardinality(Pending) \in Nat
    BY <1>0, PendingFinite DEF TypeOK
  <1>1. ASSUME NEW t \in Threads, FetchAddInc(t)
        PROVE  (\A u \in Threads : LenOK(u)') /\ SlotsOK'
    <2> DEFINE L == Len(tickets[t])
               v == atomic_fetch_add(smem, 1).ret
    <2>0. PICK n : n = <<t, L + 1>>
      BY Zenon
    <2>1. t \notin Pending /\ L < Rounds /\ L \in Nat /\ pc[t] = "idle"
      <3>1. pc[t] = "idle" /\ L # Rounds
        BY <1>1 DEF FetchAddInc, Done
      <3>2. QED
        BY <3>1, <1>01, <1>02, <1>03 DEF Pending
    <2>2. v = NN
      <3>1. v = ToUnsigned(smem)
        BY <1>0, SmallWords, OpsMeaning DEF TypeOK
      <3>2. QED
        BY <2>1, <3>1, NoWrap
    <2>3. /\ tickets' = [tickets EXCEPT ![t] = Append(tickets[t], v)]
          /\ count' = count + 1 /\ x' = x /\ pc' = pc /\ oldv' = oldv
      BY <1>1 DEF FetchAddInc, Complete
    <2>4. Pending' = Pending
      BY <2>3 DEF Pending
    <2>5. /\ tickets'[t] = Append(tickets[t], v)
          /\ \A u \in Threads \ {t} : tickets'[u] = tickets[u]
      BY <2>3, <1>03
    <2>13. Len(tickets'[t]) = L + 1
      BY <2>5, <1>03
    <2>6. \A u \in Threads : LenOK(u)'
      <3> SUFFICES ASSUME NEW u \in Threads PROVE LenOK(u)'
        OBVIOUS
      <3>1. CASE u = t
        BY <3>1, <2>1, <2>3, <2>13, <1>02
      <3>2. CASE u # t
        BY <3>2, <2>3, <2>5, <1>01
      <3>3. QED
        BY <3>1, <3>2
    <2>7. Slots' = Slots \cup {n}
      <3>1. \A a \in Threads \ {t} : H2(a) = H(a)
        BY Zenon, <2>4, <2>5 DEF Height
      <3>2. H(t) = L /\ H2(t) = L + 1
        BY <2>1, <2>4, <2>13 DEF Height
      <3>3. QED
        BY <3>1, <3>2, <2>0, <2>1, <1>06, SlotsUp
    <2>8. \A s \in Slots : TicketOf(s)' = TicketOf(s)
      <3>0. PICK tkp, xp : tkp = tickets' /\ xp = x'
        BY Zenon
      <3>1. \A i \in 1 .. Rounds :
              i <= H(t) => TicketAt(tkp, xp, <<t, i>>) = TicketAt(tickets, x, <<t, i>>)
        <4> SUFFICES ASSUME NEW i \in 1 .. Rounds, i <= H(t)
                     PROVE  TicketAt(tkp, xp, <<t, i>>) = TicketAt(tickets, x, <<t, i>>)
          OBVIOUS
        <4>1. i \in 1 .. L
          BY <2>1 DEF Height
        <4>2. tkp[t][i] = tickets[t][i]
          BY <3>0, <4>1, <2>5, <1>03
        <4>3. QED
          BY <3>0, <4>1, <4>2, <2>13 DEF TicketAt
      <3>2. \A a \in Threads \ {t} : tkp[a] = tickets[a] /\ xp[a] = x[a]
        BY <3>0, <2>3, <2>5
      <3>3. ASSUME NEW s \in SlotsOf(tickets, Pending)
            PROVE  TicketAt(tkp, xp, s) = TicketAt(tickets, x, s)
        <4>1. /\ s = <<s[1], s[2]>> /\ s[1] \in Threads /\ s[2] \in 1 .. Rounds
              /\ s[2] <= H(s[1])
          BY DEF SlotsOf, AllSlots
        <4>2. CASE s[1] = t
          BY <4>1, <4>2, <3>1
        <4>3. CASE s[1] # t
          BY <4>1, <4>3, <3>2 DEF TicketAt
        <4>4. QED
          BY <4>2, <4>3
      <3>4. QED
        BY <3>0, <3>3, <1>06
    <2>9. TicketOf(n)' = NN
      <3>1. TicketAt(tickets', x', n) = tickets'[t][L + 1]
        BY <2>0, <2>13 DEF TicketAt
      <3>2. tickets'[t][L + 1] = v
        BY <2>5, <1>03
      <3>3. TicketOf(n)' = TicketAt(tickets', x', n)
        BY <1>06
      <3>4. QED
        BY <3>1, <3>2, <3>3, <2>2
    <2>10. NN' = NN + 1
      BY <2>3, <2>4, <1>07 DEF NN
    <2>11. n \notin Slots
      BY <2>0, <2>1, NewSlot, <1>0
    <2>12. SlotsOK'
      BY <2>7, <2>8, <2>9, <2>10, <2>11, TicketsGrow
    <2>14. QED
      BY <2>6, <2>12
  <1>2. ASSUME NEW t \in Threads, CasLoad(t)
        PROVE  (\A u \in Threads : LenOK(u)') /\ SlotsOK'
    <2> DEFINE L == Len(tickets[t])
    <2>1. pc[t] = "idle" /\ L # Rounds
      BY <1>2 DEF CasLoad, Done
    <2>2. t \notin Pending /\ L < Rounds /\ L \in Nat
      BY <2>1, <1>01, <1>02, <1>03 DEF Pending
    <2>3. /\ tickets' = tickets /\ count' = count /\ oldv' = oldv
          /\ x' = [x EXCEPT ![t] = atomic_load(smem).ret]
          /\ pc' = [pc EXCEPT ![t] = "cas"]
      BY <1>2 DEF CasLoad
    <2>4. Pending' = Pending
      BY <2>2, <2>3, <1>03 DEF Pending
    <2>5. \A u \in Threads : LenOK(u)'
      BY <2>2, <2>3, <1>01, <1>03
    <2>6. Slots' = Slots
      BY <2>3, <2>4, <1>06
    <2>7. \A s \in Slots : TicketOf(s)' = TicketOf(s)
      <3>0. PICK xp : xp = x'
        BY Zenon
      <3>1. ASSUME NEW s \in SlotsOf(tickets, Pending)
            PROVE  TicketAt(tickets, xp, s) = TicketAt(tickets, x, s)
        <4>1. /\ s = <<s[1], s[2]>> /\ s[1] \in Threads /\ s[2] \in 1 .. Rounds
              /\ s[2] <= H(s[1])
          BY DEF SlotsOf, AllSlots
        <4>2. CASE s[1] = t
          BY <4>1, <4>2, <2>2 DEF TicketAt, Height
        <4>3. CASE s[1] # t
          BY <4>1, <4>3, <3>0, <2>3, <1>03 DEF TicketAt
        <4>4. QED
          BY <4>2, <4>3
      <3>2. \A s : TicketOf(s)' = TicketAt(tickets, xp, s)
        BY Zenon, <3>0, <2>3, <1>06
      <3>3. QED
        BY <3>1, <3>2, <1>06
    <2>8. NN' = NN
      BY <2>3, <2>4 DEF NN
    <2>9. QED
      BY <2>5, <2>6, <2>7, <2>8, TicketsKeep
  <1>3. ASSUME NEW t \in Threads, CasTry(t)
        PROVE  (\A u \in Threads : LenOK(u)') /\ SlotsOK'
    <2> DEFINE L == Len(tickets[t])
    <2>1. pc[t] = "cas"
      BY <1>3 DEF CasTry
    <2>2. t \notin Pending /\ L < Rounds /\ L \in Nat
      BY <2>1, <1>01, <1>02, <1>03 DEF Pending
    <2>3. /\ tickets' = tickets /\ count' = count /\ x' = x
          /\ pc' = [pc EXCEPT ![t] = "cas_cmp"]
          /\ oldv'[t] = ToUnsigned(smem)
          /\ \A u \in Threads \ {t} : oldv'[u] = oldv[u]
      <3>1. cas_interlocked(smem, ToUnsigned(x[t] + 1), x[t]).old_val
              = ToUnsigned(smem)
        <4>1. x[t] \in Word /\ x[t] + 1 \in Int
          BY <1>03, WordInt
        <4>2. ToUnsigned(x[t] + 1) \in Word
          BY <4>1, ToUnsignedType
        <4>3. QED
          BY <1>0, <4>1, <4>2, OpsMeaning DEF TypeOK
      <3>2. QED
        BY <1>3, <1>03, <3>1 DEF CasTry
    <2>4. \A u \in Threads : LenOK(u)'
      BY <2>2, <2>3, <1>01, <1>03
    <2>5. \A s \in Slots : TicketOf(s)' = TicketOf(s)
      BY <2>3, <1>06
    <2>6. CASE ToUnsigned(smem) = x[t]
      <3>0. PICK n : n = <<t, L + 1>>
        BY Zenon
      <3>1. Pending' = Pending \cup {t}
        BY <2>3, <2>6, <1>03 DEF Pending
      <3>2. ToUnsigned(smem) = NN
        BY <2>2, NoWrap
      <3>3. Slots' = Slots \cup {n}
        <4>1. \A a \in Threads \ {t} : H2(a) = H(a)
          BY Zenon, <2>3, <3>1 DEF Height
        <4>2. H(t) = L /\ H2(t) = L + 1
          BY <2>2, <2>3, <3>1 DEF Height
        <4>3. QED
          BY <4>1, <4>2, <3>0, <2>2, <1>06, SlotsUp
      <3>4. TicketOf(n)' = NN
        <4>1. TicketOf(n)' = TicketAt(tickets, x, n)
          BY <2>3, <1>06
        <4>2. TicketAt(tickets, x, n) = x[t]
          BY <3>0, <2>2 DEF TicketAt
        <4>3. QED
          BY <4>1, <4>2, <3>2, <2>6
      <3>5. NN' = NN + 1
        <4>1. Cardinality(Pending') = Cardinality(Pending) + 1
          BY <3>1, <2>2, <1>0, FS_AddElement
        <4>2. QED
          BY <4>1, <2>3, <1>07 DEF NN
      <3>6. n \notin Slots
        BY <3>0, <2>2, NewSlot, <1>0
      <3>7. SlotsOK'
        BY <2>5, <3>3, <3>4, <3>5, <3>6, TicketsGrow
      <3>8. QED
        BY <2>4, <3>7
    <2>7. CASE ToUnsigned(smem) # x[t]
      <3>1. Pending' = Pending
        BY <2>2, <2>3, <2>7, <1>03 DEF Pending
      <3>2. Slots' = Slots /\ NN' = NN
        BY <2>3, <3>1, <1>06 DEF NN
      <3>3. QED
        BY <2>4, <2>5, <3>2, TicketsKeep
    <2>8. QED
      BY <2>6, <2>7
  <1>4. ASSUME NEW t \in Threads, CasCheck(t)
        PROVE  (\A u \in Threads : LenOK(u)') /\ SlotsOK'
    <2> DEFINE L == Len(tickets[t])
    <2>1. pc[t] = "cas_cmp" /\ L < Rounds /\ L \in Nat
      <3>1. pc[t] = "cas_cmp"
        BY <1>4 DEF CasCheck
      <3>2. QED
        BY <3>1, <1>01, <1>02, <1>03
    <2>2. CASE oldv[t] = x[t]
      <3>1. /\ tickets' = [tickets EXCEPT ![t] = Append(tickets[t], x[t])]
            /\ count' = count + 1 /\ x' = x
            /\ pc' = [pc EXCEPT ![t] = "idle"]
            /\ oldv' = [oldv EXCEPT ![t] = 0]
        BY <1>4, <2>2, <1>03 DEF CasCheck, Complete, cas_compare
      <3>2. t \in Pending /\ Pending' = Pending \ {t}
        BY <2>1, <2>2, <3>1, <1>03 DEF Pending
      <3>3. /\ tickets'[t] = Append(tickets[t], x[t])
            /\ Len(tickets'[t]) = L + 1
            /\ \A u \in Threads \ {t} : tickets'[u] = tickets[u]
        BY <3>1, <1>03
      <3>4. \A u \in Threads : LenOK(u)'
        <4>1. LenOK(t)'
          BY <2>1, <3>1, <3>3, <1>02, <1>03
        <4>2. \A u \in Threads \ {t} : LenOK(u)'
          BY <3>1, <3>3, <1>01, <1>03
        <4>3. QED
          BY <4>1, <4>2
      <3>5. Slots' = Slots
        <4>1. \A a \in Threads : H2(a) = H(a)
          <5>1. H2(t) = H(t)
            BY <2>1, <3>2, <3>3 DEF Height
          <5>2. \A a \in Threads \ {t} : H2(a) = H(a)
            BY Zenon, <3>2, <3>3 DEF Height
          <5>3. QED
            BY <5>1, <5>2
        <4>2. QED
          BY <4>1, <1>06, SlotsSame
      <3>6. \A s \in Slots : TicketOf(s)' = TicketOf(s)
        <4>0. PICK tkp : tkp = tickets'
          BY Zenon
        <4>1. ASSUME NEW s \in SlotsOf(tickets, Pending)
              PROVE  TicketAt(tkp, x, s) = TicketAt(tickets, x, s)
          <5>1. /\ s = <<s[1], s[2]>> /\ s[1] \in Threads /\ s[2] \in 1 .. Rounds
                /\ s[2] <= H(s[1])
            BY DEF SlotsOf, AllSlots
          <5>2. CASE s[1] = t /\ s[2] <= L
            BY <5>1, <5>2, <4>0, <3>3, <1>03 DEF TicketAt
          <5>3. CASE s[1] = t /\ ~(s[2] <= L)
            <6>1. s[2] = L + 1
              BY <5>1, <5>3, <3>2, <2>1 DEF Height
            <6>2. QED
              BY <5>1, <5>3, <6>1, <4>0, <3>3, <1>03 DEF TicketAt
          <5>4. CASE s[1] # t
            BY <5>1, <5>4, <4>0, <3>3 DEF TicketAt
          <5>5. QED
            BY <5>2, <5>3, <5>4
        <4>2. \A s : TicketOf(s)' = TicketAt(tkp, x, s)
          BY Zenon, <4>0, <3>1, <1>06
        <4>3. QED
          BY <4>1, <4>2, <1>06
      <3>7. NN' = NN
        <4>1. Cardinality(Pending') = Cardinality(Pending) - 1
          BY <3>2, <1>0, FS_RemoveElement
        <4>2. QED
          BY <4>1, <3>1, <1>07 DEF NN
      <3>8. QED
        BY <3>4, <3>5, <3>6, <3>7, TicketsKeep
    <2>3. CASE oldv[t] # x[t]
      <3>1. /\ tickets' = tickets /\ count' = count
            /\ x' = [x EXCEPT ![t] = oldv[t]]
            /\ pc' = [pc EXCEPT ![t] = "cas"]
            /\ oldv' = [oldv EXCEPT ![t] = 0]
        BY <1>4, <2>3 DEF CasCheck, cas_compare
      <3>2. t \notin Pending /\ Pending' = Pending
        BY <2>3, <3>1, <1>03 DEF Pending
      <3>3. \A u \in Threads : LenOK(u)'
        BY <2>1, <3>1, <1>01, <1>03
      <3>4. Slots' = Slots /\ NN' = NN
        BY <3>1, <3>2, <1>06 DEF NN
      <3>5. \A s \in Slots : TicketOf(s)' = TicketOf(s)
        <4>0. PICK xp : xp = x'
          BY Zenon
        <4>1. ASSUME NEW s \in SlotsOf(tickets, Pending)
              PROVE  TicketAt(tickets, xp, s) = TicketAt(tickets, x, s)
          <5>1. /\ s = <<s[1], s[2]>> /\ s[1] \in Threads /\ s[2] \in 1 .. Rounds
                /\ s[2] <= H(s[1])
            BY DEF SlotsOf, AllSlots
          <5>2. CASE s[1] = t
            BY <5>1, <5>2, <3>2 DEF TicketAt, Height
          <5>3. CASE s[1] # t
            BY <5>1, <5>3, <4>0, <3>1, <1>03 DEF TicketAt
          <5>4. QED
            BY <5>2, <5>3
        <4>2. \A s : TicketOf(s)' = TicketAt(tickets, xp, s)
          BY Zenon, <4>0, <3>1, <1>06
        <4>3. QED
          BY <4>1, <4>2, <1>06
      <3>6. QED
        BY <3>3, <3>4, <3>5, TicketsKeep
    <2>4. QED
      BY <2>2, <2>3
  <1>5. CASE Finished \/ UNCHANGED vars
    <2>1. UNCHANGED vars
      BY <1>5 DEF Finished
    <2>2. \A u \in Threads : LenOK(u)'
      BY <2>1, <1>01 DEF vars
    <2>3. Slots' = Slots /\ NN' = NN /\ \A s \in Slots : TicketOf(s)' = TicketOf(s)
      BY <2>1, <1>06 DEF vars, NN, Pending
    <2>4. QED
      BY <2>2, <2>3, TicketsKeep
  <1>6. QED
    BY <1>1, <1>2, <1>3, <1>4, <1>5 DEF Next, Step

\* Initially no increment has been taken.
LEMMA InitTickets == Init => TicketInv
  <1> SUFFICES ASSUME Init PROVE TicketInv
    OBVIOUS
  <1>1. CounterInv
    BY InitCounter
  <1>2. Pending = {} /\ count = 0
    BY DEF Init, Pending
  <1>3. \A t \in Threads : Len(tickets[t]) = 0 /\ pc[t] = "idle"
    BY DEF Init
  <1>4. Slots = {}
    BY <1>2, <1>3 DEF Slots
  <1>5. QED
    BY <1>1, <1>2, <1>3, <1>4, RoundsAssumption, FS_EmptySet DEF TicketInv

\* The tickets handed out are distinct and below the number of increments
\* taken, in every reachable state.
THEOREM TicketInvariant == Spec => []TicketInv
  BY InitTickets, TicketStep, PTL DEF Spec

\* No two increments are handed the same ticket, by fetch_add or by the
\* compare-exchange retry loop, on the MSVC branch, for every finite set
\* of threads and rounds that fit in 2^Bits.
THEOREM TicketsUniqueHolds == Spec => []TicketsUnique
  <1>1. TicketInv => TicketsUnique
    <2> SUFFICES ASSUME TicketInv,
                        NEW t1 \in Threads, NEW t2 \in Threads,
                        NEW i \in 1 .. Len(tickets[t1]),
                        NEW j \in 1 .. Len(tickets[t2]),
                        <<t1, i>> # <<t2, j>>
                 PROVE  tickets[t1][i] # tickets[t2][j]
      BY DEF TicketsUnique
    <2>1. /\ Len(tickets[t1]) <= Rounds /\ Len(tickets[t1]) \in Nat
          /\ Len(tickets[t2]) <= Rounds /\ Len(tickets[t2]) \in Nat
          /\ Rounds \in Nat
      BY RoundsAssumption DEF TicketInv, CounterInv, TypeOK
    <2>2. <<t1, i>> \in Slots /\ <<t2, j>> \in Slots
      <3>1. i \in 1 .. Rounds /\ j \in 1 .. Rounds
        BY <2>1
      <3>2. /\ i <= Len(tickets[t1]) + (IF t1 \in Pending THEN 1 ELSE 0)
            /\ j <= Len(tickets[t2]) + (IF t2 \in Pending THEN 1 ELSE 0)
        <4>1. i \in Nat /\ j \in Nat /\ i <= Len(tickets[t1]) /\ j <= Len(tickets[t2])
          BY <2>1
        <4>2. i <= Len(tickets[t1]) + (IF t1 \in Pending THEN 1 ELSE 0)
          <5>1. CASE t1 \in Pending
            BY <4>1, <5>1, <2>1
          <5>2. CASE t1 \notin Pending
            BY <4>1, <5>2
          <5>3. QED
            BY <5>1, <5>2
        <4>3. j <= Len(tickets[t2]) + (IF t2 \in Pending THEN 1 ELSE 0)
          <5>1. CASE t2 \in Pending
            BY <4>1, <5>1, <2>1
          <5>2. CASE t2 \notin Pending
            BY <4>1, <5>2
          <5>3. QED
            BY <5>1, <5>2
        <4>4. QED
          BY <4>2, <4>3
      <3>3. <<t1, i>> \in Threads \X (1 .. Rounds) /\ <<t2, j>> \in Threads \X (1 .. Rounds)
        BY <3>1
      <3>4. QED
        BY Zenon, <3>2, <3>3 DEF Slots
    <2>3. TicketOf(<<t1, i>>) = tickets[t1][i] /\ TicketOf(<<t2, j>>) = tickets[t2][j]
      BY DEF TicketOf
    <2>4. QED
      BY <2>2, <2>3 DEF TicketInv
  <1>2. QED
    BY <1>1, TicketInvariant, PTL

=============================================================================
