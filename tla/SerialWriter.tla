---------------------------- MODULE SerialWriter ----------------------------
(***************************************************************************)
(* What a serial port promises to its writers: the writes stand in one     *)
(* line, characters are sent for the first of them only, each write ends   *)
(* once, and what it reports is what was sent of it.                       *)
(***************************************************************************)
EXTENDS Naturals, Sequences, SequencesExt

CONSTANTS Writes, Length

VARIABLES line,   \* the accepted writes that have not ended, in order
          sent,   \* write -> characters sent
          report  \* write -> how it ended: [kind, chars]

Open == [kind |-> "open", chars |-> 0]

Init ==
  /\ line = <<>>
  /\ sent = [w \in Writes |-> 0]
  /\ report = [w \in Writes |-> Open]

Accept(w) ==
  /\ report[w] = Open /\ w \notin ToSet(line)
  /\ line' = Append(line, w)
  /\ UNCHANGED <<sent, report>>

Send ==
  /\ line # <<>>
  /\ \E n \in sent[Head(line)] + 1 .. Length[Head(line)] :
       sent' = [sent EXCEPT ![Head(line)] = n]
  /\ UNCHANGED <<line, report>>

Results(w) == {[kind |-> "cancelled", chars |-> 0], [kind |-> "timeout", chars |-> sent[w]]}
                \cup {[kind |-> "success", chars |-> n] : n \in {Length[w]} \cap {sent[w]}}

\* Several writes end at once when the port is purged.
End ==
  \E gone \in SUBSET ToSet(line) \ {{}} :
    /\ line' = SelectSeq(line, LAMBDA w : w \notin gone)
    /\ \A w \in Writes : IF w \in gone THEN report'[w] \in Results(w)
                         ELSE report'[w] = report[w]
    /\ DOMAIN report' = Writes
    /\ UNCHANGED sent

Next == (\E w \in Writes : Accept(w)) \/ Send \/ End

Spec == Init /\ [][Next]_<<line, sent, report>>
=============================================================================
