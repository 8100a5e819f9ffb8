---------------------------- MODULE OutputBuffer ----------------------------
(***************************************************************************)
(* boundedBuffer of internal/cc/runner.go: the subprocess prints as much   *)
(* as it likes, in pieces of any length; the first bytes are kept, and the *)
(* diagnostics report how many there were and whether some were dropped.   *)
(***************************************************************************)
EXTENDS Integers, Sequences

CONSTANTS Bytes,
          Limit,     \* newBoundedBuffer turns a limit of 0 into the default
          MaxPrinted \* bound of the model

ASSUME BufferAssumption == Limit \in Nat \ {0} /\ MaxPrinted \in Nat

VARIABLES printed, \* everything the subprocess has written
          buffer, total, truncated

vars == <<printed, buffer, total, truncated>>

TypeOK ==
    /\ printed \in Seq(Bytes)
    /\ buffer \in Seq(Bytes) /\ Len(buffer) <= Limit
    /\ total \in Nat
    /\ truncated \in BOOLEAN

Init ==
    /\ printed = <<>>
    /\ buffer = <<>>
    /\ total = 0
    /\ truncated = FALSE

Remaining == Limit - Len(buffer)

\* A piece for which there is no room at all.
Drop ==
    /\ Remaining <= 0
    /\ truncated' = TRUE
    /\ UNCHANGED buffer

CutWhole(p) ==
    /\ Remaining > 0 /\ Len(p) > Remaining
    /\ truncated' = TRUE
    /\ UNCHANGED buffer

CutOneLate(p) ==
    /\ Remaining > 0 /\ Len(p) > Remaining
    /\ truncated' = TRUE
    /\ buffer' = buffer \o SubSeq(p, 1, Remaining + 1)

\* A piece of which only the beginning fits.
Cut(p) ==
    /\ Remaining > 0 /\ Len(p) > Remaining
    /\ truncated' = TRUE
    /\ buffer' = buffer \o SubSeq(p, 1, Remaining)

KeepBeforeTheLimit(p) ==
    /\ Remaining > 0 /\ Len(p) <= Remaining
    /\ buffer' = buffer \o p
    /\ truncated' = (Len(p) = Remaining)

Keep(p) ==
    /\ Remaining > 0 /\ Len(p) <= Remaining
    /\ buffer' = buffer \o p
    /\ UNCHANGED truncated

\* The copying goroutine of os/exec writes no empty piece.
Write(p) ==
    /\ Len(p) > 0
    /\ printed' = printed \o p
    /\ total' = total + Len(p)
    /\ Drop \/ Cut(p) \/ Keep(p)

Next ==
    \E n \in 1..(MaxPrinted - Len(printed)) : \E p \in [1..n -> Bytes] : Write(p)

Spec == Init /\ [][Next]_vars

-----------------------------------------------------------------------------
\* Properties.

\* However the output is cut into pieces, what is decoded is its beginning, as
\* much of it as the limit allows: no piece is lost between two that are kept.
BufferIsPrefix ==
    /\ Len(buffer) = IF Len(printed) <= Limit THEN Len(printed) ELSE Limit
    /\ \A n \in 1..Len(buffer) : buffer[n] = printed[n]

\* The diagnostics of a failed run tell a cut output from a complete one, also
\* when a piece ends exactly at the limit, and count every byte.
TruncationIsReported ==
    /\ total = Len(printed)
    /\ truncated <=> Len(printed) > Limit

=============================================================================
