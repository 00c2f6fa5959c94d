------------------------ MODULE DuplicateGateProofs ------------------------
(***************************************************************************)
(* Proofs about DuplicateGate.  Two things carry them.  A row of a key can *)
(* only be in the ledger when the execution of the key exists, so a tool   *)
(* that reads the ledger before it asks for the execution never meets its  *)
(* own row unasked.  And a row that was there when a request came in goes  *)
(* with the request: it is still in the ledger or was taken out, then in   *)
(* what the request read, then on the card of the decision it spends.      *)
(***************************************************************************)
EXTENDS DuplicateGate, TLAPS

LedgerRows == GateKeys \cup HandRows
Steps == {"idle", "called", "looked", "read", "through", "over"}
Entries == {Entry[k] : k \in GateKeys} \cup {NoCheck}

Executions == [begun : BOOLEAN, by : Overrides, had : SUBSET LedgerRows]
CheckRows == [status : {"none", "awaiting_decision", "write_anyway"},
              entry : Entries, key : GateKeys \cup {NoCheck},
              shown : SUBSET LedgerRows, live : BOOLEAN]
RequestRows == [step : Steps, key : GateKeys, override : Overrides,
                had : SUBSET LedgerRows, seen : SUBSET LedgerRows,
                by : Overrides]

(* The types of the executions, the ledger, the checks and the requests.   *)
GateTypeOK ==
    /\ tool \in {"expense", "income"}
    /\ execution \in [GateKeys -> Executions]
    /\ rows \in SUBSET LedgerRows /\ removed \in SUBSET LedgerRows
    /\ check \in [Checks -> CheckRows]
    /\ request \in [GateCalls -> RequestRows]

\* A row of a key in the ledger, or read from it, is one its execution wrote.
RowsBegun == \A k \in GateKeys : k \in rows => execution[k].begun

\* Decision d lets a write of key k pass what was there when it came in.
Lets(d, k, had) ==
    /\ check[d].status = "write_anyway"
    /\ check[d].entry = Entry[k]
    /\ had \ removed \subseteq check[d].shown

\* What a request in flight carries from one step to the next.
Carries(q) ==
    /\ \A k \in GateKeys : k \in q.seen => execution[k].begun
    /\ q.step \in {"called", "looked"} => q.had \subseteq rows \cup removed
    /\ q.step = "read" => q.had \subseteq q.seen \cup removed
    /\ q.by # NoCheck => q.step = "through" /\ Lets(q.by, q.key, q.had)
    /\ q.step = "through" /\ q.by = NoCheck =>
           q.had \subseteq removed \/ execution[q.key].begun

RequestInv == \A c \in GateCalls : Carries(request[c])

\* How each execution was let in.
ExecutionInv ==
    \A k \in GateKeys :
        LET x == execution[k]
        IN  /\ ~x.begun => x.by = NoCheck
            /\ x.begun /\ x.by = NoCheck => x.had \subseteq removed
            /\ x.by # NoCheck => Lets(x.by, k, x.had)

\* A decision that was spent let one request in, or is one execution's.
SpentOnce ==
    /\ \A c, e \in GateCalls : c # e =>
           (request[c].by # NoCheck => request[e].by # request[c].by)
    /\ \A c \in GateCalls, k \in GateKeys :
           request[c].by # NoCheck => execution[k].by # request[c].by
    /\ \A j, k \in GateKeys : j # k =>
           (execution[j].by # NoCheck => execution[k].by # execution[j].by)

GateInv == /\ GateTypeOK /\ RowsBegun /\ RequestInv /\ ExecutionInv
           /\ SpentOnce /\ NoSelfDuplicate

-----------------------------------------------------------------------------
(* One request takes a step.                                               *)

LEMMA RequestPut ==
  ASSUME GateTypeOK, NEW c \in GateCalls, NEW q \in RequestRows,
         request' = [request EXCEPT ![c] = q]
  PROVE  /\ request' \in [GateCalls -> RequestRows]
         /\ request'[c] = q
         /\ \A e \in GateCalls \ {c} : request'[e] = request[e]
  BY DEF GateTypeOK

LEMMA RequestRow ==
  ASSUME GateInv, NEW c \in GateCalls
  PROVE  /\ request[c] \in RequestRows /\ Carries(request[c])
         /\ rows \in SUBSET LedgerRows /\ removed \in SUBSET LedgerRows
         /\ execution \in [GateKeys -> Executions]
         /\ check \in [Checks -> CheckRows]
         /\ request \in [GateCalls -> RequestRows]
  BY DEF GateInv, GateTypeOK, RequestInv

LEMMA OnlyRequest ==
  ASSUME GateInv, NEW c \in GateCalls, NEW q \in RequestRows,
         request' = [request EXCEPT ![c] = q], Carries(q),
         q.by # NoCheck => q.by = request[c].by,
         UNCHANGED <<tool, execution, rows, removed, check>>
  PROVE  GateInv'
<1>1. /\ request' \in [GateCalls -> RequestRows]
      /\ request'[c] = q
      /\ \A e \in GateCalls \ {c} : request'[e] = request[e]
  BY RequestPut DEF GateInv
<1>2. GateTypeOK' /\ RowsBegun' /\ NoSelfDuplicate'
  BY <1>1 DEF GateInv, GateTypeOK, RowsBegun, NoSelfDuplicate
<1>3. RequestInv'
  <2> SUFFICES ASSUME NEW e \in GateCalls PROVE Carries(request[e])'
    BY DEF RequestInv
  <2>1. Carries(request'[e])
    BY <1>1 DEF GateInv, RequestInv
  <2> QED BY <2>1 DEF Carries, Lets
<1>4. ExecutionInv'
  BY DEF GateInv, ExecutionInv, Lets
<1>5. SpentOnce'
  BY <1>1 DEF GateInv, SpentOnce
<1> QED BY <1>2, <1>3, <1>4, <1>5 DEF GateInv

\* A call that is over holds nothing.
LEMMA OverCarries ==
  ASSUME GateInv, NEW c \in GateCalls
  PROVE  LET q == [step |-> "over", key |-> request[c].key,
                   override |-> NoCheck, had |-> {}, seen |-> {},
                   by |-> NoCheck]
         IN  q \in RequestRows /\ Carries(q)
  BY RequestRow DEF RequestRows, Steps, Overrides, Carries

LEMMA StepCarries ==
  ASSUME GateInv, NEW c \in GateCalls, NEW step \in Steps
  PROVE  /\ [request[c] EXCEPT !.step = step] \in RequestRows
         /\ Go(c, step) => request' = [request EXCEPT ![c] =
                               [request[c] EXCEPT !.step = step]]
  BY RequestRow DEF RequestRows, Go

LEMMA RequestSteps ==
  ASSUME GateInv, NEW c \in GateCalls,
         \/ \E o \in Overrides : Arrive(c, o)
         \/ Look(c) \/ ReadLedger(c) \/ PassUnasked(c) \/ RefuseWrite(c)
         \/ Stop(c)
  PROVE  GateInv'
<1> DEFINE old == request[c]
<1>0. /\ old \in RequestRows /\ Carries(old)
      /\ rows \in SUBSET LedgerRows /\ removed \in SUBSET LedgerRows
      /\ request \in [GateCalls -> RequestRows]
  BY RequestRow
<1>1. UNCHANGED <<tool, execution, rows, removed, check>>
  BY DEF Arrive, Look, ReadLedger, PassUnasked, RefuseWrite, Stop
<1>2. ASSUME NEW o \in Overrides, Arrive(c, o) PROVE GateInv'
  <2> DEFINE q == [old EXCEPT !.step = "called", !.override = o, !.had = rows]
  <2>1. q \in RequestRows
    BY <1>0 DEF RequestRows, Steps
  <2>2. request' = [request EXCEPT ![c] = q]
    BY <1>0, <1>2 DEF Arrive
  <2>3. Carries(q) /\ q.by = old.by
    BY <1>0, <1>2 DEF Arrive, Carries, RequestRows
  <2> HIDE DEF q
  <2> QED BY <1>1, <2>1, <2>2, <2>3, OnlyRequest
<1>3. ASSUME Look(c) PROVE GateInv'
  <2> DEFINE step == IF execution[old.key].begun THEN "through" ELSE "looked"
             q == [old EXCEPT !.step = step]
  <2>1. step \in Steps
    BY DEF Steps
  <2>2. q \in RequestRows /\ request' = [request EXCEPT ![c] = q]
    BY <1>3, <2>1, StepCarries DEF Look
  <2>3. Carries(q) /\ q.by = old.by
    BY <1>0, <1>3 DEF Look, Carries, RequestRows
  <2> HIDE DEF q
  <2> QED BY <1>1, <2>2, <2>3, OnlyRequest
<1>4. ASSUME ReadLedger(c) PROVE GateInv'
  <2> DEFINE q == [old EXCEPT !.step = "read", !.seen = rows]
  <2>1. q \in RequestRows
    BY <1>0 DEF RequestRows, Steps
  <2>2. request' = [request EXCEPT ![c] = q]
    BY <1>0, <1>4 DEF ReadLedger
  <2>3. old.step \in {"called", "looked"}
    BY <1>4 DEF ReadLedger
  <2>4. RowsBegun
    BY DEF GateInv
  <2>5. Carries(q) /\ q.by = old.by
    BY <1>0, <2>3, <2>4 DEF Carries, RequestRows, RowsBegun
  <2> HIDE DEF q
  <2> QED BY <1>1, <2>1, <2>2, <2>5, OnlyRequest
<1>5. ASSUME PassUnasked(c) PROVE GateInv'
  <2> DEFINE q == [old EXCEPT !.step = "through"]
  <2>1. q \in RequestRows /\ request' = [request EXCEPT ![c] = q]
    BY <1>5, StepCarries DEF PassUnasked, Steps
  <2>2. old.step = "read"
        /\ (execution[old.key].begun \/ old.seen = {})
    BY <1>5 DEF PassUnasked, GateApplies
  <2>3. Carries(q) /\ q.by = old.by
    BY <1>0, <2>2 DEF Carries, RequestRows
  <2> HIDE DEF q
  <2> QED BY <1>1, <2>1, <2>3, OnlyRequest
<1>6. ASSUME Over(c) PROVE GateInv'
  <2> DEFINE q == [step |-> "over", key |-> old.key, override |-> NoCheck,
                   had |-> {}, seen |-> {}, by |-> NoCheck]
  <2>1. q \in RequestRows /\ Carries(q) /\ q.by = NoCheck
    BY OverCarries
  <2>2. request' = [request EXCEPT ![c] = q]
    BY <1>0, <1>6 DEF Over
  <2> HIDE DEF q
  <2> QED BY <1>1, <2>1, <2>2, OnlyRequest
<1> QED BY <1>2, <1>3, <1>4, <1>5, <1>6 DEF RefuseWrite, Stop

-----------------------------------------------------------------------------
(* Decisions.                                                              *)

LEMMA ReleaseStep ==
  ASSUME GateInv, NEW c \in GateCalls, PassReleased(c)
  PROVE  GateInv'
<1> DEFINE old == request[c]
           d == old.override
<1>0. /\ old \in RequestRows /\ Carries(old)
      /\ rows \in SUBSET LedgerRows /\ removed \in SUBSET LedgerRows
      /\ request \in [GateCalls -> RequestRows]
      /\ check \in [Checks -> CheckRows]
  BY RequestRow
<1>1. UNCHANGED <<tool, execution, rows, removed>> /\ old.step = "read"
      /\ d \in Checks
  BY <1>0 DEF PassReleased, RequestRows, Overrides
<1>2. CASE ~Authorises(d, c)
  <2> DEFINE q == [step |-> "over", key |-> old.key, override |-> NoCheck,
                   had |-> {}, seen |-> {}, by |-> NoCheck]
  <2>1. q \in RequestRows /\ Carries(q) /\ q.by = NoCheck
    BY OverCarries
  <2>2. request' = [request EXCEPT ![c] = q] /\ UNCHANGED check
    BY <1>0, <1>2 DEF PassReleased, Over
  <2> HIDE DEF q
  <2> QED BY <1>1, <2>1, <2>2, OnlyRequest
<1>3. CASE Authorises(d, c)
  <2> DEFINE q == [old EXCEPT !.step = "through", !.by = d]
  <2>1. /\ check[d].status = "awaiting_decision"
        /\ check[d].entry = Entry[old.key] /\ check[d].shown = old.seen
    BY <1>3 DEF Authorises
  <2>2. q \in RequestRows
    BY <1>0, <1>1 DEF RequestRows, Steps, Overrides
  <2>3. /\ request' = [request EXCEPT ![c] = q]
        /\ check' = [check EXCEPT ![d].status = "write_anyway"]
    BY <1>0, <1>3 DEF PassReleased
  <2>4. /\ request' \in [GateCalls -> RequestRows] /\ request'[c] = q
        /\ \A e \in GateCalls \ {c} : request'[e] = request[e]
    BY <2>2, <2>3, RequestPut DEF GateInv
  <2>5. /\ check' \in [Checks -> CheckRows]
        /\ check'[d].status = "write_anyway"
        /\ check'[d].entry = check[d].entry
        /\ check'[d].shown = check[d].shown /\ check'[d].key = check[d].key
        /\ \A e \in Checks \ {d} : check'[e] = check[e]
    BY <1>0, <1>1, <2>3 DEF CheckRows
  <2>6. /\ q.step = "through" /\ q.by = d /\ q.key = old.key
        /\ q.had = old.had /\ q.seen = old.seen
    BY <1>0 DEF RequestRows
  <2> HIDE DEF q
  \* Nobody was let in by d before: it was still awaiting its decision.
  <2>7. /\ \A e \in GateCalls : request[e].by # d
        /\ \A k \in GateKeys : execution[k].by # d
    BY <1>1, <2>1, GateAssumption
       DEF GateInv, RequestInv, Carries, ExecutionInv, Lets, Checks
  <2>8. GateTypeOK' /\ RowsBegun'
    BY <1>1, <2>4, <2>5 DEF GateInv, GateTypeOK, RowsBegun
  <2>9. RequestInv'
    <3> SUFFICES ASSUME NEW e \in GateCalls PROVE Carries(request[e])'
      BY DEF RequestInv
    <3>1. CASE e = c
      BY <1>0, <1>1, <2>1, <2>4, <2>5, <2>6, <3>1, GateAssumption
         DEF Carries, Lets, Checks
    <3>2. CASE e # c
      <4>1. Carries(request[e]) /\ request[e] \in RequestRows
        BY RequestRow
      <4> QED BY <1>1, <2>4, <2>5, <2>7, <3>2, <4>1
              DEF Carries, Lets, RequestRows, Overrides
    <3> QED BY <3>1, <3>2
  <2>10. ExecutionInv'
    <3> SUFFICES ASSUME NEW k \in GateKeys
                 PROVE  /\ ~execution[k].begun => execution[k].by = NoCheck
                        /\ execution[k].begun /\ execution[k].by = NoCheck =>
                               execution[k].had \subseteq removed
                        /\ execution[k].by # NoCheck =>
                               Lets(execution[k].by, k, execution[k].had)'
      BY <1>1 DEF ExecutionInv, Lets
    <3>1. execution[k].by \in Overrides
      BY DEF GateInv, GateTypeOK, Executions
    <3> QED BY <1>1, <2>5, <2>7, <3>1
            DEF GateInv, ExecutionInv, Lets, Overrides
  <2>11. SpentOnce'
    BY <1>1, <2>4, <2>6, <2>7 DEF GateInv, SpentOnce
  <2>12. NoSelfDuplicate'
    BY <1>1, <2>5 DEF GateInv, NoSelfDuplicate
  <2> QED BY <2>8, <2>9, <2>10, <2>11, <2>12 DEF GateInv
<1> QED BY <1>2, <1>3


\* The ledger and the clock leave every check as it decides writes: what one
\* shows, for which entry, and whether it was spent.
LEMMA LetsKept ==
  ASSUME GateInv, NEW d \in Checks, NEW k \in GateKeys,
         NEW had \in SUBSET LedgerRows, Lets(d, k, had),
         removed \subseteq removed',
         /\ check'[d].status = check[d].status
         /\ check'[d].entry = check[d].entry
         /\ check'[d].shown = check[d].shown
  PROVE  Lets(d, k, had)'
  BY DEF Lets

LEMMA RaiseStep ==
  ASSUME GateInv, NEW c \in GateCalls, RaiseCheck(c)
  PROVE  GateInv'
<1> DEFINE old == request[c]
           q == [step |-> "over", key |-> old.key, override |-> NoCheck,
                 had |-> {}, seen |-> {}, by |-> NoCheck]
           row == [status |-> "awaiting_decision", entry |-> Entry[old.key],
                   key |-> old.key, shown |-> old.seen, live |-> TRUE]
<1>0. /\ old \in RequestRows /\ Carries(old)
      /\ request \in [GateCalls -> RequestRows]
      /\ check \in [Checks -> CheckRows]
  BY RequestRow
<1>1. PICK d \in Checks : /\ check[d].status = "none"
                          /\ check' = [check EXCEPT ![d] = row]
  BY DEF RaiseCheck
<1>2. UNCHANGED <<tool, execution, rows, removed>> /\ GateApplies(c)
  BY DEF RaiseCheck
<1>3. q \in RequestRows /\ Carries(q) /\ q.by = NoCheck
  BY OverCarries
<1>4. request' = [request EXCEPT ![c] = q]
  BY <1>0 DEF RaiseCheck, Over
<1>5. row \in CheckRows
  BY <1>0 DEF CheckRows, RequestRows, Entries
<1>6. row.key = old.key /\ row.shown = old.seen
  OBVIOUS
<1>7. /\ Carries(old) /\ old \in RequestRows
      /\ GateApplies(c) <=> (tool = "income" \/ ~execution[old.key].begun)
  BY <1>0 DEF GateApplies, LooksFirst
<1> HIDE DEF q, row, old
<1>8. /\ request' \in [GateCalls -> RequestRows] /\ request'[c] = q
      /\ \A e \in GateCalls \ {c} : request'[e] = request[e]
  BY <1>3, <1>4, RequestPut DEF GateInv
<1>9. /\ check' \in [Checks -> CheckRows] /\ check'[d] = row
      /\ \A e \in Checks \ {d} : check'[e] = check[e]
  BY <1>0, <1>1, <1>5
\* A check that was not raised lets nothing in.
<1>10. /\ \A e \in GateCalls : request[e].by # d
       /\ \A k \in GateKeys : execution[k].by # d
  BY <1>1, GateAssumption DEF GateInv, RequestInv, Carries, ExecutionInv,
                              Lets, Checks
<1>11. GateTypeOK' /\ RowsBegun'
  BY <1>2, <1>8, <1>9 DEF GateInv, GateTypeOK, RowsBegun
<1>12. RequestInv'
  <2> SUFFICES ASSUME NEW e \in GateCalls PROVE Carries(request[e])'
    BY DEF RequestInv
  <2>1. CASE e = c
    <3>1. Carries(q)
      BY <1>3
    <3> QED BY <1>2, <1>3, <1>8, <2>1, <3>1 DEF Carries, Lets
  <2>2. CASE e # c
    <3>1. Carries(request[e]) /\ request[e] \in RequestRows
      BY RequestRow
    <3> QED BY <1>2, <1>8, <1>9, <1>10, <2>2, <3>1
            DEF Carries, Lets, RequestRows, Overrides
  <2> QED BY <2>1, <2>2
<1>13. ExecutionInv'
  <2> SUFFICES ASSUME NEW k \in GateKeys, execution[k].by # NoCheck
               PROVE  Lets(execution[k].by, k, execution[k].had)'
    BY <1>2 DEF GateInv, ExecutionInv, Lets
  <2>1. execution[k].by \in Checks \ {d}
    BY <1>10 DEF GateInv, GateTypeOK, Executions, Overrides
  <2> QED BY <1>2, <1>9, <2>1 DEF GateInv, ExecutionInv, Lets
<1>14. SpentOnce'
  BY <1>2, <1>3, <1>8 DEF GateInv, SpentOnce
\* The expense tool asks a second time: its key had not begun when it read.
<1>15. NoSelfDuplicate'
  <2> SUFFICES ASSUME tool = "expense", NEW e \in Checks
               PROVE  check'[e].key \notin check'[e].shown
    BY <1>2 DEF NoSelfDuplicate
  <2>1. CASE e = d
    <3>1. ~execution[old.key].begun
      BY <1>2, <1>7
    <3>2. old.key \in GateKeys /\ old.key \notin old.seen
      BY <1>7, <3>1 DEF Carries, RequestRows
    <3> QED BY <1>6, <1>9, <2>1, <3>2
  <2>2. CASE e # d
    BY <1>9, <2>2 DEF GateInv, NoSelfDuplicate
  <2> QED BY <2>1, <2>2
<1> QED BY <1>11, <1>12, <1>13, <1>14, <1>15 DEF GateInv

LEMMA StartStep ==
  ASSUME GateInv, NEW c \in GateCalls, StartWrite(c)
  PROVE  GateInv'
<1> DEFINE old == request[c]
           k == old.key
           q == [step |-> "over", key |-> k, override |-> NoCheck,
                 had |-> {}, seen |-> {}, by |-> NoCheck]
           row == [begun |-> TRUE, by |-> old.by, had |-> old.had]
<1>0. /\ old \in RequestRows /\ Carries(old)
      /\ request \in [GateCalls -> RequestRows]
      /\ execution \in [GateKeys -> Executions]
  BY RequestRow
<1>1. /\ UNCHANGED <<tool, rows, removed, check>> /\ old.step = "through"
      /\ request' = [request EXCEPT ![c] = q]
      /\ execution' = IF execution[k].begun THEN execution
                      ELSE [execution EXCEPT ![k] = row]
  BY <1>0 DEF StartWrite, Over
<1>2. q \in RequestRows /\ Carries(q) /\ q.by = NoCheck
  BY OverCarries
<1>3. CASE execution[k].begun
  <2> HIDE DEF q
  <2> QED BY <1>1, <1>2, <1>3, OnlyRequest
<1>4. CASE ~execution[k].begun
  <2>1. row \in Executions
    BY <1>0 DEF Executions, RequestRows
  <2>2. /\ row.begun /\ row.by = old.by /\ row.had = old.had
        /\ k \in GateKeys
    BY <1>0 DEF RequestRows
  <2>3. /\ old.by = NoCheck => old.had \subseteq removed
        /\ old.by # NoCheck => Lets(old.by, k, old.had)
    BY <1>0, <1>1, <1>4 DEF Carries
  <2> HIDE DEF q, row, old, k
  <2>4. /\ request' \in [GateCalls -> RequestRows] /\ request'[c] = q
        /\ \A e \in GateCalls \ {c} : request'[e] = request[e]
    BY <1>1, <1>2, RequestPut DEF GateInv
  <2>5. /\ execution' \in [GateKeys -> Executions] /\ execution'[k] = row
        /\ \A j \in GateKeys \ {k} : execution'[j] = execution[j]
    BY <1>0, <1>1, <1>4, <2>1, <2>2
  <2>6. \A j \in GateKeys : execution[j].begun => execution'[j].begun
    BY <1>4, <2>5
  <2>7. GateTypeOK' /\ RowsBegun' /\ NoSelfDuplicate'
    BY <1>1, <2>4, <2>5, <2>6
       DEF GateInv, GateTypeOK, RowsBegun, NoSelfDuplicate
  <2>8. RequestInv'
    <3> SUFFICES ASSUME NEW e \in GateCalls PROVE Carries(request[e])'
      BY DEF RequestInv
    <3>1. \A r \in RequestRows : Carries(r) => Carries(r)'
      BY <1>1, <2>6 DEF Carries, Lets, RequestRows
    <3>2. Carries(request'[e]) /\ request'[e] \in RequestRows
      BY <1>2, <2>4 DEF GateInv, RequestInv
    <3> QED BY <2>4, <3>1, <3>2 DEF Carries, Lets
  <2>9. ExecutionInv'
    BY <1>1, <2>2, <2>3, <2>5 DEF GateInv, ExecutionInv, Lets
  <2>10. execution[k].by = NoCheck
    BY <1>4, <2>2 DEF GateInv, ExecutionInv
  \* The decision goes from the request to the execution it let in.
  <2>11. SpentOnce'
    <3>1. /\ \A e \in GateCalls \ {c} :
                 request[e].by # NoCheck => request[e].by # old.by
          /\ \A j \in GateKeys \ {k} :
                 execution[j].by # NoCheck => execution[j].by # old.by
      BY <2>2 DEF GateInv, SpentOnce, old
    <3> QED BY <1>2, <2>2, <2>4, <2>5, <3>1 DEF GateInv, SpentOnce
  <2> QED BY <2>7, <2>8, <2>9, <2>11 DEF GateInv
<1> QED BY <1>3, <1>4

-----------------------------------------------------------------------------
(* Around the gate.                                                        *)

\* Rows come and go: what was in the ledger is in it or was taken out.
LEMMA LedgerMoves ==
  ASSUME GateInv, rows' \in SUBSET LedgerRows, removed' \in SUBSET LedgerRows,
         UNCHANGED <<tool, execution, check, request>>,
         removed \subseteq removed',
         rows \cup removed \subseteq rows' \cup removed',
         RowsBegun'
  PROVE  GateInv'
<1>1. GateTypeOK' /\ NoSelfDuplicate' /\ SpentOnce'
  BY DEF GateInv, GateTypeOK, NoSelfDuplicate, SpentOnce
<1>2. ExecutionInv'
  BY DEF GateInv, ExecutionInv, Lets
<1>3. RequestInv'
  <2> SUFFICES ASSUME NEW c \in GateCalls PROVE Carries(request[c])'
    BY DEF RequestInv
  <2>1. Carries(request[c])
    BY RequestRow
  <2>2. request'[c] = request[c]
    OBVIOUS
  <2> QED BY <2>1, <2>2 DEF Carries, Lets
<1> QED BY <1>1, <1>2, <1>3 DEF GateInv

LEMMA LandStep ==
  ASSUME GateInv, NEW k \in GateKeys, RowLands(k)
  PROVE  GateInv'
  BY LedgerMoves DEF RowLands, RowsBegun, GateInv, GateTypeOK, LedgerRows

LEMMA HandStep ==
  ASSUME GateInv, NEW h \in HandRows, HandAdds(h) \/ HandRemoves(h)
  PROVE  GateInv'
<1>1. \A k \in GateKeys : k # h
  BY GateAssumption
<1> QED BY <1>1, LedgerMoves DEF HandAdds, HandRemoves, RowsBegun, GateInv,
                                 GateTypeOK, LedgerRows

LEMMA LapseStep ==
  ASSUME GateInv, NEW d \in Checks, Lapse(d)
  PROVE  GateInv'
<1>1. UNCHANGED <<tool, execution, rows, removed, request>>
  BY DEF Lapse
<1>2. /\ check' \in [Checks -> CheckRows]
      /\ \A e \in Checks : /\ check'[e].status = check[e].status
                           /\ check'[e].entry = check[e].entry
                           /\ check'[e].key = check[e].key
                           /\ check'[e].shown = check[e].shown
  BY DEF Lapse, GateInv, GateTypeOK, CheckRows
<1>3. GateTypeOK' /\ RowsBegun' /\ NoSelfDuplicate' /\ SpentOnce'
  BY <1>1, <1>2 DEF GateInv, GateTypeOK, RowsBegun, NoSelfDuplicate, SpentOnce
<1>4. RequestInv'
  <2> SUFFICES ASSUME NEW c \in GateCalls PROVE Carries(request[c])'
    BY DEF RequestInv
  <2>1. Carries(request[c]) /\ request[c] \in RequestRows
    BY RequestRow
  <2> QED BY <1>1, <1>2, <2>1 DEF Carries, Lets, RequestRows, Overrides
<1>5. ExecutionInv'
  <2>1. \A k \in GateKeys : execution[k].by \in Overrides
    BY DEF GateInv, GateTypeOK, Executions
  <2> QED BY <1>1, <1>2, <2>1 DEF GateInv, ExecutionInv, Lets, Overrides
<1> QED BY <1>3, <1>4, <1>5 DEF GateInv

LEMMA GateStep ==
  ASSUME GateInv, [GateNext]_gateVars
  PROVE  GateInv'
<1>1. ASSUME NEW c \in GateCalls,
             \/ \E o \in Overrides : Arrive(c, o)
             \/ Look(c) \/ ReadLedger(c)
             \/ PassUnasked(c) \/ PassReleased(c) \/ RaiseCheck(c)
             \/ RefuseWrite(c) \/ StartWrite(c) \/ Stop(c)
      PROVE  GateInv'
  BY <1>1, RequestSteps, ReleaseStep, RaiseStep, StartStep
<1>2. ASSUME UNCHANGED gateVars PROVE GateInv'
  <2>1. UNCHANGED <<tool, execution, rows, removed, check, request>>
    BY <1>2 DEF gateVars
  <2>2. RowsBegun'
    BY <2>1 DEF GateInv, RowsBegun
  <2>3. rows' \in SUBSET LedgerRows /\ removed' \in SUBSET LedgerRows
    BY <2>1 DEF GateInv, GateTypeOK
  <2> QED BY <2>1, <2>2, <2>3, LedgerMoves
<1> QED BY <1>1, <1>2, LandStep, HandStep, LapseStep DEF GateNext

LEMMA GateStart ==
  ASSUME GateInit
  PROVE  GateInv
<1> DEFINE fresh == [step : {"idle"}, key : GateKeys, override : {NoCheck},
                     had : {{}}, seen : {{}}, by : {NoCheck}]
<1>1. request \in [GateCalls -> fresh] /\ rows \in SUBSET HandRows
      /\ removed = {}
  BY DEF GateInit
<1>2. NotStarted \in Executions /\ NotRaised \in CheckRows
  BY DEF NotStarted, NotRaised, Executions, CheckRows, Overrides, Entries
<1>3. \A q \in fresh : q \in RequestRows
  BY DEF RequestRows, Steps, Overrides
<1>4. \A q \in fresh : q.step = "idle" /\ q.seen = {} /\ q.by = NoCheck
  OBVIOUS
<1> HIDE DEF fresh
<1>5. /\ execution \in [GateKeys -> Executions]
      /\ \A k \in GateKeys : execution[k] = NotStarted
      /\ check \in [Checks -> CheckRows]
      /\ \A d \in Checks : check[d] = NotRaised
  BY <1>2 DEF GateInit
<1>6. GateTypeOK
  BY <1>1, <1>3, <1>5 DEF GateInit, GateTypeOK, LedgerRows
<1>7. RowsBegun
  BY <1>1, GateAssumption DEF RowsBegun
<1>8. RequestInv
  <2> SUFFICES ASSUME NEW c \in GateCalls PROVE Carries(request[c])
    BY DEF RequestInv
  <2>1. /\ request[c].step = "idle" /\ request[c].seen = {}
        /\ request[c].by = NoCheck
    BY <1>1, <1>4
  <2> QED BY <2>1 DEF Carries
<1>9. ExecutionInv /\ NoSelfDuplicate
  BY <1>5 DEF ExecutionInv, NoSelfDuplicate, NotStarted, NotRaised
<1>10. SpentOnce
  BY <1>1, <1>4, <1>5 DEF SpentOnce, NotStarted
<1> QED BY <1>6, <1>7, <1>8, <1>9, <1>10 DEF GateInv

-----------------------------------------------------------------------------
(* What holds of the gate, for every ledger, every number of calls and     *)
(* every order of their steps.                                             *)

(* In every state of every behaviour a row under a key has its execution,  *)
(* the rows a request met are where the next step of it will see them, and *)
(* a spent decision is held in one place (duplicate_check.py:255-262).     *)
THEOREM GateInvariant == GateSpec => []GateInv
<1>1. GateInit => GateInv
  BY GateStart
<1>2. GateInv /\ [GateNext]_gateVars => GateInv'
  BY GateStep
<1> QED BY <1>1, <1>2, PTL DEF GateSpec

(* Executions, checks and requests keep their types.                       *)
THEOREM GateTypeCorrect == GateSpec => []GateTypeOK
<1>1. GateInv => GateTypeOK
  BY DEF GateInv
<1> QED BY <1>1, GateInvariant, PTL

(* No check the expense tool raises shows the row of the key it was raised *)
(* for, whatever runs between its two reads (write_path.py:502-507).       *)
THEOREM NoSelfDuplicateHolds == GateSpec => []NoSelfDuplicate
<1>1. GateInv => NoSelfDuplicate
  BY DEF GateInv
<1> QED BY <1>1, GateInvariant, PTL

(* A row that was in the ledger when a request came in, and was not taken  *)
(* out, was shown by the one decision that let this execution alone start  *)
(* (duplicate_check.py:255-262).                                           *)
THEOREM AskedHolds == GateSpec => []AskedBeforeRepeating
<1>1. GateInv => AskedBeforeRepeating
  <2> SUFFICES ASSUME GateInv, NEW k \in GateKeys, execution[k].begun
               PROVE  LET d == execution[k].by IN
                      /\ d = NoCheck => execution[k].had \subseteq removed
                      /\ d # NoCheck =>
                             /\ check[d].status = "write_anyway"
                             /\ check[d].entry = Entry[k]
                             /\ execution[k].had \ removed
                                    \subseteq check[d].shown
                             /\ \A j \in GateKeys \ {k} : execution[j].by # d
    BY DEF AskedBeforeRepeating
  <2>1. /\ execution[k].by = NoCheck => execution[k].had \subseteq removed
        /\ execution[k].by # NoCheck =>
               Lets(execution[k].by, k, execution[k].had)
    BY DEF GateInv, ExecutionInv
  <2>2. \A j \in GateKeys \ {k} :
            execution[k].by # NoCheck => execution[j].by # execution[k].by
    BY DEF GateInv, SpentOnce
  <2> QED BY <2>1, <2>2 DEF Lets
<1> QED BY <1>1, GateInvariant, PTL
=============================================================================
