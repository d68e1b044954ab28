--------------------------- MODULE RollingBatches ---------------------------
(***************************************************************************)
(* What batched rolling promises a caller, however the bytes arrive (the   *)
(* BatchRoller and BatchWriter interfaces of rollinghash.go): the batches  *)
(* deliver the checksum of every window of the stream once and in order,   *)
(* each with the bytes it covers and their true offset, and when a closed  *)
(* stream is exhausted no window is left.                                  *)
(*                                                                         *)
(* A byte is identified by its position in the stream, and a checksum by   *)
(* the position its window starts at.                                      *)
(***************************************************************************)
EXTENDS Integers, Sequences

CONSTANTS Window,       \* bytes in a rolling window
          StreamLimit    \* bound of the model: no stream has more bytes

VARIABLES written,   \* bytes of the stream supplied so far
          closed,    \* no more bytes will be supplied
          next,      \* start of the first window not delivered
          cur        \* the accessors: the current batch, or NoBatch

vars == <<written, closed, next, cur>>

\* Offset, Bytes and Sums of the batch of the n bytes from s on.
Positions(s, n) == [i \in 1..n |-> s + i - 1]

Batch(s, n) ==
    [offset |-> s, bytes |-> Positions(s, n), sums |-> Positions(s, n - (Window - 1))]

NoBatch == [offset |-> 0, bytes |-> <<>>, sums |-> <<>>]

Init ==
    /\ written = 0
    /\ closed = FALSE
    /\ next = 0
    /\ cur = NoBatch

\* Some bytes arrive, and possibly the end of the stream; no batch is disturbed.
Supply ==
    /\ ~closed
    /\ written' \in written..StreamLimit
    /\ closed' \in BOOLEAN
    /\ UNCHANGED <<next, cur>>

\* The next windows, at least one, all of them in the bytes supplied.
Deliver ==
    \E n \in Window..(written - next) :
        /\ cur' = Batch(next, n)
        /\ next' = next + n - (Window - 1)
        /\ UNCHANGED <<written, closed>>

\* Nothing to deliver: not yet, or because the input failed, while the stream is
\* open; never again, once it is closed and has no window left.
Nothing ==
    /\ closed => next + Window > written
    /\ cur' = NoBatch
    /\ UNCHANGED <<written, closed, next>>

Reset ==
    /\ written' = 0
    /\ closed' = FALSE
    /\ next' = 0
    /\ cur' = NoBatch

Next == Supply \/ Deliver \/ Nothing \/ Reset

Spec == Init /\ [][Next]_vars
=============================================================================
