---------------------------- MODULE TicketCounter ----------------------------
(***************************************************************************)
(* What a shared counter incremented by fetch_add promises its callers     *)
(* (spec section 8): each increment is one indivisible step that hands the *)
(* caller the counter's previous value as its ticket and adds one, with    *)
(* wrapping arithmetic on the counter's width.  Each thread makes at most  *)
(* Rounds increments.                                                      *)
(***************************************************************************)
EXTENDS Naturals, Sequences

CONSTANTS
  Threads,   \* the incrementing threads
  Rounds,    \* increments per thread
  Modulus    \* 2^(8w), the number of values of the counter's type

VARIABLES
  counter,   \* the counter's value
  tickets    \* tickets[t]: the tickets t has obtained, in order

Init ==
  /\ counter = 0
  /\ tickets = [t \in Threads |-> <<>>]

\* One increment by thread t: ticket = fetch_add(&counter, 1).
Increment(t) ==
  /\ Len(tickets[t]) < Rounds
  /\ tickets' = [tickets EXCEPT ![t] = Append(@, counter)]
  /\ counter' = (counter + 1) % Modulus

Next == \E t \in Threads : Increment(t)

Spec == Init /\ [][Next]_<<counter, tickets>>

=============================================================================
