----------------------------- MODULE Intervals -----------------------------
(***************************************************************************)
(* Inclusive line intervals, the evidence of an EvalFence case             *)
(* (src/src/interval.rs, src/src/model.rs).                                *)
(*                                                                         *)
(* MaxU64 stands for u64::MAX.  Model checking uses a small value, so the  *)
(* boundary where Rust saturates or refuses to convert is reached.         *)
(***************************************************************************)
EXTENDS Integers, Sequences

CONSTANTS MaxU64,   \* the largest u64
          Files,    \* normalized file keys
          NoFile    \* the Err of normalize_file_key

ASSUME MaxU64Assumption == MaxU64 \in Nat \ {0}
ASSUME NoFileAssumption == NoFile \notin Files

U64 == 0 .. MaxU64

(* One (start, end) pair of a NormalizedSet. *)
Interval == [start : U64, end : U64]

(* u64::saturating_add *)
SatAdd(x, y) == IF x + y > MaxU64 THEN MaxU64 ELSE x + y

(* The negation of the bounds check of normalize_set. *)
WellFormed(iv) == /\ iv.start # 0
                  /\ iv.end # 0
                  /\ iv.start <= iv.end

WellFormedInterval == {iv \in Interval : WellFormed(iv)}

(* The lines an interval names, and those the first n of a list name. *)
Points(iv) == iv.start .. iv.end
CoveredUpTo(list, n) == UNION {Points(list[i]) : i \in 1 .. n}
Covered(list) == CoveredUpTo(list, Len(list))

(* The canonical form: ascending, and no two intervals overlap or touch. *)
Separated(list) ==
    \A i, j \in DOMAIN list : i < j => list[i].end + 1 < list[j].start

(* A NormalizedSet: a canonical list per file, <<>> where there is no key.   *)
NormalizedSet == {s \in [Files -> Seq(WellFormedInterval)] :
                    \A f \in Files : Separated(s[f])}

(* u128::from(end) - u128::from(start) + 1 *)
Width(iv) == iv.end - iv.start + 1

-----------------------------------------------------------------------------
(***************************************************************************)
(* A raw file key is the normalized key it spells and how it spells it:    *)
(* surrounding blanks are trimmed and backslashes become slashes, so three *)
(* spellings name one file; the other spellings are refused.               *)
(***************************************************************************)
Plain    == {"plain", "padded", "backslash"}
Refused  == {"blank", "absolute", "drive", "dotted"}
RawKey   == [spelling : Plain \cup Refused, path : Files]

NormalizeFileKey(raw) == IF raw.spelling \in Refused THEN NoFile ELSE raw.path

(* One IntervalInput of an EvidenceSet. *)
Item == [file : RawKey, start : U64, end : U64]

GoodItem(item) == NormalizeFileKey(item.file) # NoFile /\ WellFormed(item)

(* The code of the violation normalize_set records for a bad item. *)
Refusal(item) == IF NormalizeFileKey(item.file) = NoFile
                 THEN "EF011_UNSAFE_FILE_KEY"
                 ELSE "EF010_INVALID_INTERVAL"
=============================================================================
