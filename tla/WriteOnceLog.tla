---------------------------- MODULE WriteOnceLog ----------------------------
(***************************************************************************)
(* What the query log promises, whatever channels, batches and processes   *)
(* are behind it: an entry is written at most once, what is written stays  *)
(* until it is older than a deletion's cutoff, and what was lost or        *)
(* deleted does not come back.                                             *)
(***************************************************************************)
EXTENDS Naturals

CONSTANT Query   \* entries, one per query

VARIABLES
  entry,   \* what has become of each entry
  stamp    \* its timestamp, once it has one

State == {"new", "accepted", "written", "gone"}

Init ==
  /\ entry = [q \in Query |-> "new"]
  /\ stamp = [q \in Query |-> 0]

\* The entry gets its timestamp, and is queued or turned away for good.
Submit(q) ==
  /\ entry[q] = "new"
  /\ \E e \in {"accepted", "gone"} : entry' = [entry EXCEPT ![q] = e]
  /\ stamp' = [stamp EXCEPT ![q] = stamp'[q]]

\* Of the queued entries some are written and some are lost.
Settle ==
  LET old == entry
      new == entry'
  IN  /\ new \in [Query -> State]
      /\ \A q \in Query :
           new[q] # old[q] => old[q] = "accepted" /\ new[q] \in {"written", "gone"}
      /\ UNCHANGED stamp

\* Whatever is older than the cutoff goes, and nothing else.
Purge ==
  LET old == entry
      age == stamp
      new == entry'
  IN  /\ \E cutoff \in {age[q] + 1 : q \in Query} :   \* no others matter
           new = [q \in Query |-> IF old[q] = "written" /\ age[q] < cutoff
                                   THEN "gone" ELSE old[q]]
      /\ UNCHANGED stamp

Next ==
  \/ Settle
  \/ \E q \in Query : Submit(q)
  \/ Purge

Spec == Init /\ [][Next]_<<entry, stamp>>
=============================================================================
