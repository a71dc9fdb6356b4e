------------------------------ MODULE ReceiptTokens ----------------------------
(***************************************************************************)
(* The token account of a Run Receipt (src/src/run-receipt.ts): what one   *)
(* Session's log says of its usage, what the samples add up to, and the    *)
(* checks the feed repeats on both (validateAggregate of                   *)
(* packages/run-receipt-feed/src/types.ts).                                *)
(*                                                                         *)
(* An event of the log is a turn's start or end or the summary of a        *)
(* compaction; the last two carry a usage, [Fields -> Nat or None], or     *)
(* None.  Sums beyond the safe integers are left out.                      *)
(* External: the usage that deriveTurnTokenUsage finds in a turn.          *)
(***************************************************************************)
EXTENDS RunReceipt, Totals

Parts == {"input", "output", "read", "write"}
Fields == Parts \cup {"total"}

(* A count that is not known is no count.                                  *)
ASSUME CountsAssumption == None \notin Nat

Known(usage) == {f \in DOMAIN usage : usage[f] # None}
KnownSubtotal(usage) == Total([f \in Parts \cap Known(usage) |-> usage[f]])

Unknown == [f \in Fields |-> None]

(* completeTurns: the ends of the turns that were closed under their       *)
(* number, and whether another turn was begun.                             *)
Closes(events, i, j) ==
  /\ i < j /\ events[i].type = "start" /\ events[j].type = "end"
  /\ \A n \in (i+1)..(j-1) : events[n].type \notin {"start", "end"}
  /\ events[i].turn = events[j].turn

completeTurns(events) ==
  [windows |-> {j \in DOMAIN events : \E i \in DOMAIN events : Closes(events, i, j)},
   incomplete |-> \E i \in DOMAIN events : /\ events[i].type = "start"
                                           /\ \A j \in DOMAIN events : ~Closes(events, i, j)]

(* addUsage: a turn without usage is missing in every dimension.           *)
addUsage(usage) == IF usage = None THEN Unknown ELSE usage

(* addCompactionUsage: the total is the one reported, unless it is below   *)
(* its parts, or the sum of all of them.                                   *)
addCompactionUsage(usage) ==
  IF {"input", "output"} \subseteq Known(usage)
  THEN [usage EXCEPT !["total"] =
          IF @ # None THEN IF @ >= KnownSubtotal(usage) THEN @ ELSE None
          ELSE IF Parts \subseteq Known(usage) THEN KnownSubtotal(usage) ELSE None]
  ELSE Unknown

(* tokenEvidence of a dimension: the values that are known, provisional    *)
(* when one is missing or a turn is not complete.                          *)
tokenEvidence(usages, field, incomplete) ==
  LET reported == {n \in DOMAIN usages : usages[n][field] # None}
  IN IF reported = {} THEN [status |-> "unavailable", value |-> None]
     ELSE [status |-> IF incomplete \/ reported # DOMAIN usages
                      THEN "provisional" ELSE "reported",
           value |-> Total([n \in reported |-> usages[n][field]])]

sessionTokenSample(events) ==
  LET turns == completeTurns(events)
      summaries == {n \in DOMAIN events : events[n].type = "summary" /\ events[n].usage # None}
      usages == [n \in turns.windows \cup summaries |->
                   IF n \in summaries THEN addCompactionUsage(events[n].usage)
                   ELSE addUsage(events[n].usage)]
  IN [f \in Fields |-> tokenEvidence(usages, f, turns.incomplete)]

remoteTokenSample == [f \in Fields |-> [status |-> "unavailable", value |-> None]]

(* aggregateTokenField: the samples are those of the rows of the receipt.  *)
aggregateTokenField(samples, field, unavailable, truncated) ==
  LET with(status) == {c \in DOMAIN samples : samples[c][field].status = status}
      known == with("reported") \cup with("provisional")
  IN [value |-> IF known = {} /\ Cardinality(DOMAIN samples) + unavailable + truncated > 0
                THEN None
                ELSE Total([c \in known |-> samples[c][field].value]),
      coverage |-> coverage(Cardinality(with("reported")), Cardinality(with("provisional")),
                            Cardinality(with("unavailable")) + unavailable, truncated)]

tokenAccount(samples, unavailable, truncated) ==
  LET totals == [f \in Fields |-> aggregateTokenField(samples, f, unavailable, truncated)]
      all(status) == \A f \in Fields : totals[f].coverage.status = status
  IN [coverage |-> IF all("complete") THEN "complete"
                   ELSE IF all("unavailable") THEN "unavailable" ELSE "partial",
      totals |-> totals, sessions |-> samples]

(* validateAggregate of the feed, the part on one sample: its total and    *)
(* its parts agree, as far as they are known.                              *)
SampleAgrees(sample) ==
  LET value == [f \in Fields |-> sample[f].value]
  IN /\ value["total"] # None => value["total"] >= KnownSubtotal(value)
     /\ Parts \subseteq Known(value) => value["total"] = KnownSubtotal(value)

(* summarizeRunReceipt: the counts a result of a run carries.              *)
summarizeRunReceipt(receipt, account) ==
  LET rows == receipt.participation.rows
  IN [outcome |-> receipt.outcome,
      stageCounts |-> [s \in Statuses |->
                         Cardinality({p \in Stages : receipt.stages[p] = s})],
      local |-> Cardinality({r \in rows : r.source = "session"}),
      remote |-> Cardinality({r \in rows : r.source = "remote"}),
      tokenTotals |-> [f \in Fields |-> account.totals[f].value],
      unavailable |-> Total([f \in Fields |-> account.totals[f].coverage.unavailable]),
      coverage |-> [participation |-> participation(receipt).status,
                    tokens |-> account.coverage]]

------------------------------------------------------------------------------
(* A usage whose total is the sum of what is known of its parts: the feed  *)
(* takes no sample for granted whose usages are others.                    *)
Balanced(usage) ==
  \/ ~({"input", "output"} \subseteq Known(usage))
  \/ usage["total"] = KnownSubtotal(usage)
  \/ usage["total"] = None /\ Parts \subseteq Known(usage)

(* Whatever turns were left open and compactions left out, the sample of a *)
(* Session whose usages are balanced passes the check of the feed          *)
(* (src/src/run-receipt.ts:466, packages/run-receipt-feed/src/types.ts:316)*)
SamplesAgree(Logs) ==
  \A events \in Logs :
    (\A n \in DOMAIN events : events[n].usage # None => Balanced(events[n].usage))
      => SampleAgrees(sessionTokenSample(events))

(* Nothing is known of a field exactly when its total is null, and an      *)
(* account is complete only when every row reported every field.           *)
AccountsAgree(Members, Samples, Counts) ==
  \A samples \in [Members -> Samples], n \in Counts, t \in Counts :
    LET account == tokenAccount(samples, n, t)
    IN /\ \A f \in Fields : account.totals[f].value = None
                              <=> account.totals[f].coverage.status = "unavailable"
       /\ account.coverage = "complete" <=>
            n + t = 0 /\ \A c \in Members, f \in Fields : samples[c][f].status = "reported"

==============================================================================
