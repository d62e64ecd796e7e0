---- MODULE PortMerge ----
(* Merge of internal/portset step by step: the ranges are sorted by their first port and absorbed one   *)
(* after another.  FirewallPlan says what comes out.                                                   *)
EXTENDS FirewallPlan, Sequences
LOCAL INSTANCE SequencesExt

\* One step: extend the last range, or start the next one.
Absorb(merged, current) ==
  LET n == Len(merged) IN
  IF n > 0 /\ current.from <= merged[n].to + 1
    THEN [merged EXCEPT ![n].to = IF current.to > @ THEN current.to ELSE @]
    ELSE Append(merged, current)
MergeSorted(ranges) ==
  ToSet(FoldLeft(Absorb, <<>>, SetToSortSeq(ranges, LAMBDA r, s : r.from < s.from)))
====
