--------------------------- MODULE SampleCollector ---------------------------
(***************************************************************************)
(* The Sample Collector of spec.md (sections 3, 4.1 and 5), as an abstract *)
(* specification: the collector runs each variant's batch in turn, in a    *)
(* fixed order.  Each of the N iterations of a batch either appends one    *)
(* sample, tagged with its iteration index, to the variant's SampleSet, or *)
(* fails and leaves no placeholder.  A SampleSet is handed over whole once *)
(* its N iterations are done, and a user interrupt stops the collection at *)
(* any point.  It says nothing about how a run is parsed: a sample's       *)
(* metrics are any member of Values.                                       *)
(***************************************************************************)
EXTENDS Naturals, Sequences

CONSTANTS
  Order,    \* the variants, in the order their batches run
  N,        \* iterations per batch
  Values    \* possible metric mappings of a sample

VARIABLES
  cur,       \* index in Order of the batch being collected (> Len(Order): all done)
  attempts,  \* iterations of the current batch run so far
  batch,     \* the SampleSet being built
  sets,      \* the SampleSets handed over: variant -> SampleSet
  stopped    \* an interrupt has ended the collection

cvars == <<cur, attempts, batch, sets, stopped>>

Collecting == ~stopped /\ cur <= Len(Order)

Init ==
  /\ cur = 1
  /\ attempts = 0
  /\ batch = <<>>
  /\ sets = [v \in {} |-> <<>>]
  /\ stopped = FALSE

\* A successful run: one sample, in invocation order.
Collect(m) ==
  /\ Collecting /\ attempts < N
  /\ batch' = Append(batch, [iteration |-> attempts, times |-> m])
  /\ attempts' = attempts + 1
  /\ UNCHANGED <<cur, sets, stopped>>

\* A failed or timed-out run: skipped, the batch goes on.
Fail ==
  /\ Collecting /\ attempts < N
  /\ attempts' = attempts + 1
  /\ UNCHANGED <<cur, batch, sets, stopped>>

\* The batch has run N times: its SampleSet is handed over and the next
\* variant's batch starts empty.
Complete ==
  /\ Collecting /\ attempts = N
  /\ sets' = [v \in DOMAIN sets \cup {Order[cur]} |->
                IF v = Order[cur] THEN batch ELSE sets[v]]
  /\ cur' = cur + 1
  /\ attempts' = 0
  /\ batch' = <<>>
  /\ UNCHANGED stopped

\* A user interrupt: nothing more is collected.
Stop ==
  /\ ~stopped
  /\ stopped' = TRUE
  /\ UNCHANGED <<cur, attempts, batch, sets>>

Next == (\E m \in Values : Collect(m)) \/ Fail \/ Complete \/ Stop

Spec == Init /\ [][Next]_cvars

====
