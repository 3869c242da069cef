------------------------------ MODULE CasCounter ------------------------------
(***************************************************************************)
(* The way the partitioner's concurrent code uses atomic_ops.h on Windows: *)
(* threads incrementing one shared counter, initially 0, each increment    *)
(* being either                                                            *)
(*   ticket = mtk_atomic_fetch_add(&counter, 1);                           *)
(* or the compare-exchange retry loop                                      *)
(*   T x = mtk_atomic_load(&counter);                                      *)
(*   while (!mtk_atomic_compare_exchange(&counter, &x, x + 1)) {}          *)
(*   ticket = x;                                                           *)
(* with every call executed by the MSVC branch (module MsvcOps).  Each     *)
(* thread makes Rounds increments and records the ticket (the value the    *)
(* counter had before its increment) of each in tickets[t].               *)
(***************************************************************************)
EXTENDS MsvcOps, Sequences, FiniteSets

CONSTANTS
  Threads,  \* the incrementing threads
  Rounds    \* increments per thread

ASSUME RoundsAssumption == Rounds \in Nat \ {0}
ASSUME ThreadsAssumption == IsFiniteSet(Threads)

\* The counter does not wrap past a ticket still in use: at most 2^Bits
\* increments in all (the spec's scenario uses an 8-byte counter).
ASSUME CapacityAssumption == Cardinality(Threads) * Rounds <= Mod

VARIABLES
  smem,     \* the counter, as the intrinsic's signed type
  x,        \* each thread's local `x`, the address passed as expected
  pc,       \* "idle", "cas" (about to call compare-exchange), "cas_cmp"
  oldv,     \* old_val inside atomic_compare_exchange
  tickets,  \* tickets[t]: the tickets of t's completed increments
  count     \* number of completed increments (history variable)

vars == <<smem, x, pc, oldv, tickets, count>>

TypeOK ==
  /\ smem \in SWord
  /\ x \in [Threads -> Word]
  /\ pc \in [Threads -> {"idle", "cas", "cas_cmp"}]
  /\ oldv \in [Threads -> Word]
  /\ tickets \in [Threads -> Seq(Word)]
  /\ count \in Nat

Init ==
  /\ smem = 0
  /\ x = [t \in Threads |-> 0]
  /\ pc = [t \in Threads |-> "idle"]
  /\ oldv = [t \in Threads |-> 0]
  /\ tickets = [t \in Threads |-> <<>>]
  /\ count = 0

Done(t) == Len(tickets[t]) = Rounds

\* Completing an increment with ticket k.
Complete(t, k) ==
  /\ tickets' = [tickets EXCEPT ![t] = Append(@, k)]
  /\ count' = count + 1

\* ticket = mtk_atomic_fetch_add(&counter, 1)
FetchAddInc(t) ==
  LET r == atomic_fetch_add(smem, 1)
  IN  /\ pc[t] = "idle"
      /\ ~Done(t)
      /\ smem' = r.mem
      /\ Complete(t, r.ret)
      /\ UNCHANGED <<x, pc, oldv>>

\* T x = mtk_atomic_load(&counter)
CasLoad(t) ==
  LET r == atomic_load(smem)
  IN  /\ pc[t] = "idle"
      /\ ~Done(t)
      /\ smem' = r.mem
      /\ x' = [x EXCEPT ![t] = r.ret]
      /\ pc' = [pc EXCEPT ![t] = "cas"]
      /\ UNCHANGED <<oldv, tickets, count>>

\* mtk_atomic_compare_exchange(&counter, &x, x + 1): the intrinsic; the
\* int x + 1 is converted to T on the way in.
CasTry(t) ==
  LET r == cas_interlocked(smem, ToUnsigned(x[t] + 1), x[t])
  IN  /\ pc[t] = "cas"
      /\ smem' = r.mem
      /\ oldv' = [oldv EXCEPT ![t] = r.old_val]
      /\ pc' = [pc EXCEPT ![t] = "cas_cmp"]
      /\ UNCHANGED <<x, tickets, count>>

\* ... its comparison and write-back, then the loop test.
CasCheck(t) ==
  LET r == cas_compare(oldv[t], x[t])
  IN  /\ pc[t] = "cas_cmp"
      /\ x' = [x EXCEPT ![t] = r.expected]
      /\ oldv' = [oldv EXCEPT ![t] = 0]
      /\ IF r.success
           THEN /\ pc' = [pc EXCEPT ![t] = "idle"]
                /\ Complete(t, x[t])
           ELSE /\ pc' = [pc EXCEPT ![t] = "cas"]
                /\ UNCHANGED <<tickets, count>>
      /\ UNCHANGED smem

Step(t) == FetchAddInc(t) \/ CasLoad(t) \/ CasTry(t) \/ CasCheck(t)

\* Every thread has returned from its last increment.
Finished ==
  /\ \A t \in Threads : Done(t) /\ pc[t] = "idle"
  /\ UNCHANGED vars

Next == (\E t \in Threads : Step(t)) \/ Finished

\* Threads are scheduled by the operating system: a thread that can run
\* keeps getting the processor.
Fairness == \A t \in Threads : WF_vars(Step(t))

Spec == Init /\ [][Next]_vars /\ Fairness

(***************************************************************************)
(* Properties.                                                             *)
(***************************************************************************)

\* No increment is lost: whenever no thread is between the two steps of a
\* compare-exchange, the counter holds the number of increments that have
\* returned, modulo 2^Bits.  It fails if the emulated load (an
\* _InterlockedOr with 0) or the compare-exchange ever overwrote another
\* thread's increment, or a compare-exchange reported a success it did
\* not make.
NoLostUpdate ==
  (\A t \in Threads : pc[t] # "cas_cmp") => ToUnsigned(smem) = count % Mod

\* The threads whose compare-exchange has incremented the counter but
\* whose loop has not yet returned: their intrinsic found the counter
\* equal to x, so old_val = x.
Pending == {t \in Threads : pc[t] = "cas_cmp" /\ oldv[t] = x[t]}

\* The counter, as T, is the number of returned increments plus those
\* that took effect at an intrinsic and are still to return, modulo
\* 2^Bits.  This is NoLostUpdate made to hold in every state: a CAS that
\* succeeded counts from its intrinsic on, one that failed never.
CounterInv ==
  /\ TypeOK
  /\ ToUnsigned(smem) = (count + Cardinality(Pending)) % Mod

\* The increments handed a ticket so far, as <<thread, round>>: the
\* returned ones, and for a pending compare-exchange the round it is in.
Slots ==
  {s \in Threads \X (1 .. Rounds) :
     s[2] <= Len(tickets[s[1]]) + (IF s[1] \in Pending THEN 1 ELSE 0)}

\* The ticket of an increment: recorded once it returned, x while the
\* compare-exchange that succeeded with it has not.
TicketOf(s) ==
  IF s[2] <= Len(tickets[s[1]]) THEN tickets[s[1]][s[2]] ELSE x[s[1]]

\* Tickets are handed out as 0, 1, 2, ... in the order the increments
\* take effect at an intrinsic: the increments so far number count plus
\* the pending ones, each has a different ticket below that number, and
\* a thread inside its loop has a round left.  It fails if the counter
\* wrapped past a ticket still in use, if a compare-exchange returned a
\* ticket it did not obtain, or if a failed one kept a stale x.
TicketInv ==
  /\ CounterInv
  /\ \A t \in Threads :
       /\ Len(tickets[t]) <= Rounds
       /\ pc[t] # "idle" => Len(tickets[t]) < Rounds
  /\ Cardinality(Slots) = count + Cardinality(Pending)
  /\ \A s \in Slots : TicketOf(s) < count + Cardinality(Pending)
  /\ \A s1, s2 \in Slots : s1 # s2 => TicketOf(s1) # TicketOf(s2)

\* No two increments, of the same thread or of two threads, by fetch_add
\* or by the compare-exchange loop, are handed the same ticket: the value
\* each one returns is the counter's value just before it.
TicketsUnique ==
  \A t1, t2 \in Threads :
    \A i \in 1 .. Len(tickets[t1]), j \in 1 .. Len(tickets[t2]) :
      <<t1, i>> # <<t2, j>> => tickets[t1][i] # tickets[t2][j]

\* The tickets each thread has obtained: the returned ones, and for a
\* compare-exchange that has succeeded at its intrinsic but not returned,
\* the x it succeeded with.
Obtained ==
  [t \in Threads |-> IF t \in Pending THEN Append(tickets[t], x[t])
                                      ELSE tickets[t]]

Counter == INSTANCE TicketCounter
             WITH counter <- ToUnsigned(smem), tickets <- Obtained,
                  Modulus <- Mod

\* The counter is linearizable: every behaviour of the threads' fetch_add
\* increments and load/compare-exchange retry loops on the MSVC branch is
\* a behaviour of the atomic ticket counter, each increment taking effect
\* at one intrinsic (the fetch_add, or the compare-exchange that succeeds)
\* with the counter's previous value as its ticket.  It fails if an
\* increment took a ticket other than the value it replaced, or changed
\* the counter at a step where no increment took effect.
CounterLinearizable == Counter!Spec

\* Every thread's retry loop terminates: all increments eventually
\* return.  A failed compare-exchange must refresh x with the current
\* value, or the loop spins forever once the other threads are done.
AllIncrementsComplete ==
  <>(\A t \in Threads : Done(t) /\ pc[t] = "idle")

=============================================================================
