--------------------------- MODULE SlidingWindow ---------------------------
(***************************************************************************)
(* What a rolling hash promises (Hash and Roller in rollinghash.go): it is *)
(* the checksum of a window of bytes, which Write extends and Roll slides. *)
(***************************************************************************)
EXTENDS Naturals, Sequences

CONSTANTS Bytes,       \* the values of a byte
          MaxWindow    \* bound of the model: no window is longer

VARIABLE content       \* the window, oldest byte first

Init == content = <<>>

Write ==
    \E n \in 1..(MaxWindow - Len(content)) :
        \E data \in [1..n -> Bytes] : content' = content \o data

Roll ==
    /\ content # <<>>
    /\ \E c \in Bytes : content' = Append(Tail(content), c)

Reset == content' = <<>>

Next == Write \/ Roll \/ Reset

Spec == Init /\ [][Next]_content
=============================================================================
