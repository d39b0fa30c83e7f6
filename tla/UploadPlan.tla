----------------------------- MODULE UploadPlan -----------------------------
(***************************************************************************)
(* The plan of a chunked upload, as the platform answers it and as the     *)
(* program checks it before any part is sent: UploadPrepareResponse in     *)
(* src/crates/qqbot-protocol/src/stream_upload.rs, called by               *)
(* prepare_c2c_upload and prepare_group_upload in openapi.rs.              *)
(*                                                                         *)
(* Sizes are positive by their type (DecimalBytes); sums are those of an   *)
(* unsigned integer of MaxBytes, checked for overflow.                     *)
(***************************************************************************)
EXTENDS Integers, Sequences, FiniteSets, SequencesExt

CONSTANTS
    MaxParts,       \* bound of the number of parts
    MaxBytes        \* u64::MAX

PlanAssumption == MaxParts \in Nat /\ MaxBytes \in Nat \ {0}

Bytes == 1..MaxBytes
Part == [index : 0..MaxParts, size : Bytes]

VARIABLES
    file,           \* file_size of the request
    block,          \* block_size of the response
    parts,          \* its parts, in the order of the response
    verdict         \* "none", then "refused" or "accepted"

vars == <<file, block, parts, verdict>>

Init ==
    /\ file \in Bytes /\ block \in Bytes
    /\ parts \in UNION {[1..n -> Part] : n \in 0..MaxParts}
    /\ verdict = "none"

Index(i) == parts[i].index
Size(i) == parts[i].size

\* validate()
Distinct == \A i, j \in DOMAIN parts : i # j => Index(i) # Index(j)
Contiguous == {Index(i) : i \in DOMAIN parts} = 0..Len(parts) - 1
\* The last part is the one with the highest index, wherever it stands in the answer.
FullBlocks ==
    \A i \in DOMAIN parts : Size(i) <= block /\ (Index(i) + 1 # Len(parts) => Size(i) = block)
Valid == parts # <<>> /\ Distinct /\ Contiguous /\ FullBlocks

\* validate_for_request(): the sum in the order of the answer, -1 when it overflows.
CheckedAdd(total, part) ==
    IF total = -1 \/ total + part.size > MaxBytes THEN -1 ELSE total + part.size
Total == FoldLeft(CheckedAdd, 0, parts)
ValidForRequest == Valid /\ Total = file

Check ==
    /\ verdict = "none"
    /\ verdict' = IF ValidForRequest THEN "accepted" ELSE "refused"
    /\ UNCHANGED <<file, block, parts>>

Next == Check
Spec == Init /\ [][Next]_vars
----------------------------------------------------------------------------
Span(i) == Index(i) * block .. Index(i) * block + Size(i) - 1

(***************************************************************************)
(* The parts of an accepted plan, each placed at its index times the block *)
(* size, cover the file and nothing else, and no byte is in two of them,   *)
(* in whatever order the answer lists them; and a plan that covers a file  *)
(* exactly, in blocks, is not refused (validate, validate_for_request).    *)
(***************************************************************************)
AcceptedPlanTilesTheFile ==
    LET tiles == /\ Distinct
                 /\ Contiguous
                 /\ UNION {Span(i) : i \in DOMAIN parts} = 0..file - 1
                 /\ \A i, j \in DOMAIN parts : i # j => Span(i) \cap Span(j) = {}
                 /\ \A i \in DOMAIN parts : Size(i) <= block
    IN verdict # "none" => (verdict = "accepted") = tiles
============================================================================
