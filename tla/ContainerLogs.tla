--------------------------- MODULE ContainerLogs ---------------------------
(***************************************************************************)
(* FetchLogs of internal/docker/lifecycle.go: a removal reads what the     *)
(* runner has written, both streams in one, frame by frame, keeps the      *)
(* beginning of each and lets the rest go by.  Bytes are numbered in the   *)
(* order in which their stream has them.                                   *)
(***************************************************************************)
EXTENDS Integers, Sequences

CONSTANTS
    DefaultLogBytesPerStream,
    Limits,     \* what a caller may ask for, per stream
    MaxFrame,   \* bound: bytes in a frame
    MaxBytes    \* bound: bytes in a stream

BytesAssumption ==
    /\ DefaultLogBytesPerStream \in Nat /\ Limits \subseteq Int
    /\ MaxFrame \in Nat /\ MaxBytes \in Nat

Streams == {"stdout", "stderr"}

VARIABLES
    options,    \* the limits the caller has asked for
    at,         \* where FetchLogs is: "call", "copy", "returned"
    stream,     \* the connection to the daemon: "none", "open", "closed"
    sent,       \* of each stream, the bytes the daemon has sent
    buf,        \* of each stream, the bytes that are kept
    fault,      \* the daemon has refused the call or broken the stream
    err         \* FetchLogs has returned an error

vars == <<options, at, stream, sent, buf, fault, err>>

\* boundedWriter.max
Limit(s) == IF options[s] <= 0 THEN DefaultLogBytesPerStream ELSE options[s]

Init ==
    /\ options \in [Streams -> Limits]
    /\ at = "call" /\ stream = "none"
    /\ sent = [s \in Streams |-> 0]
    /\ buf = [s \in Streams |-> <<>>]
    /\ fault = FALSE /\ err = FALSE

Return(failed) ==
    /\ at' = "returned" /\ err' = failed
    /\ stream' = IF stream = "open" THEN "closed" ELSE stream

OpenLogs ==
    /\ at = "call"
    /\ \/ at' = "copy" /\ stream' = "open" /\ UNCHANGED <<fault, err>>
       \/ Return(TRUE) /\ fault' = TRUE
    /\ UNCHANGED <<options, sent, buf>>

\* Mutant: the number of bytes that are kept is returned.
WriteCounted(s, p) ==
    LET remaining == Limit(s) - Len(buf[s])
        taken == SubSeq(p, 1, IF Len(p) > remaining THEN remaining ELSE Len(p))
    IN [kept |-> buf[s] \o taken, n |-> Len(taken)]

\* boundedWriter.Write: what is kept then, and the number it returns.
Write(s, p) ==
    LET remaining == Limit(s) - Len(buf[s])
    IN [kept |-> buf[s] \o SubSeq(p, 1, IF Len(p) > remaining THEN remaining ELSE Len(p)),
        n |-> Len(p)]

\* stdcopy.StdCopy gives the next frame to its writer, and gives up if the writer
\* takes less of it.
CopyFrame(s, length) ==
    /\ at = "copy" /\ sent[s] + length <= MaxBytes
    /\ LET p == [i \in 1..length |-> sent[s] + i]
           w == Write(s, p)
       IN /\ buf' = [buf EXCEPT ![s] = w.kept]
          /\ IF w.n = Len(p) THEN UNCHANGED <<at, stream, err>> ELSE Return(TRUE)
    /\ sent' = [sent EXCEPT ![s] = @ + length]
    /\ UNCHANGED <<options, fault>>

\* The daemon has sent everything, or the stream breaks.
StreamEnds ==
    /\ at = "copy"
    /\ \/ Return(FALSE) /\ UNCHANGED fault
       \/ Return(TRUE) /\ fault' = TRUE
    /\ UNCHANGED <<options, sent, buf>>

Next ==
    \/ OpenLogs \/ StreamEnds
    \/ \E s \in Streams, length \in 1..MaxFrame : CopyFrame(s, length)

Spec == Init /\ [][Next]_vars
-----------------------------------------------------------------------------
(* Properties.                                                             *)

\* What is kept of a stream is its beginning, without a gap and up to the limit,
\* however the frames are cut and the two streams mixed (lifecycle.go:242-254).
KeepsBeginning ==
    \A s \in Streams :
        buf[s] = [i \in 1..(IF sent[s] > Limit(s) THEN Limit(s) ELSE sent[s]) |-> i]

\* However much a runner has written, the stream is read to its end: only the
\* daemon makes FetchLogs fail, and the connection is closed in any case
\* (lifecycle.go:223, 247).
DrainsStream ==
    /\ err => fault
    /\ at = "returned" => stream # "open"

\* The logs are read without loss and without a hold-up.
LogsSafe == KeepsBeginning /\ DrainsStream

=============================================================================
