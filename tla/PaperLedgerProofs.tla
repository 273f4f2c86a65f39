------------------------- MODULE PaperLedgerProofs -------------------------
(* Theorems about PaperLedger, for every value of its constants: types, the  *)
(* order of the log, exits and what one risk loop adds to them, the books.   *)
EXTENDS PaperLedger, SequenceTheorems, SumTheorems

-----------------------------------------------------------------------------
(* The arithmetic of a sale                                                  *)

\* A share s of n of a cost c, rounded down, is at most c, is all of it only
\* for s = n.
LEMMA ShareOfCost ==
    ASSUME NEW c \in Nat \ {0}, NEW n \in Nat \ {0}, NEW s \in Nat, s <= n
    PROVE  /\ (c * s) \div n \in Nat
           /\ (c * s) \div n <= c
           /\ s < n => (c * s) \div n < c
           /\ s = n => (c * s) \div n = c
<1> DEFINE q == (c * s) \div n
<1>1. c * s \in Nat /\ c * s <= c * n
  OBVIOUS
<1>2. q \in Nat /\ q * n <= c * s
  BY <1>1
<1>3. s = n => q = c
  OBVIOUS
<1> HIDE DEF q
<1>4. q <= c
  BY <1>1, <1>2
<1>5. s < n => c * s < c * n
  OBVIOUS
<1>6. s < n => q < c
  BY <1>2, <1>5
<1> QED
  BY <1>2, <1>3, <1>4, <1>6 DEF q

\* A take profit sells at most what there is.
LEMMA ExitAmountType ==
    ASSUME NEW reason \in Reasons, NEW amount \in Nat
    PROVE  ExitAmount(reason, amount) \in Nat /\ ExitAmount(reason, amount) <= amount
BY DEF ExitAmount

\* A sale takes some of the tokens and never the whole cost of a rest.
LEMMA AfterSaleType ==
    ASSUME NEW pos \in Position, NEW j \in Job
    PROVE  /\ Sold(pos, j) \in Nat /\ Sold(pos, j) <= pos.amount
           /\ Released(pos, j) \in Nat
           /\ Pnl(pos, j) \in Int
           /\ AfterSale(pos, j).amount \in Nat
           /\ AfterSale(pos, j).amount # 0 => AfterSale(pos, j) \in Position
           /\ AfterSale(pos, j).signal = pos.signal
<1>1. /\ pos.amount \in Nat \ {0} /\ pos.cost \in Nat \ {0}
      /\ j.amount \in Nat /\ j.value \in Nat
  BY DEF Position, Job
<1>2. Sold(pos, j) \in Nat /\ Sold(pos, j) <= pos.amount
  BY <1>1 DEF Sold, MinOf
<1>3. /\ Released(pos, j) \in Nat
      /\ Sold(pos, j) < pos.amount => Released(pos, j) < pos.cost
  BY <1>1, <1>2, ShareOfCost DEF Released
<1>4. Pnl(pos, j) \in Int
  BY <1>1, <1>3 DEF Pnl
<1>5. /\ AfterSale(pos, j).amount = pos.amount - Sold(pos, j)
      /\ AfterSale(pos, j).signal = pos.signal
  BY DEF AfterSale, Position
<1>6. ASSUME AfterSale(pos, j).amount # 0
      PROVE  AfterSale(pos, j) \in Position
  <2>1. /\ pos.amount - Sold(pos, j) \in Nat \ {0}
        /\ pos.cost - Released(pos, j) \in Nat \ {0}
    BY <1>1, <1>2, <1>3, <1>5, <1>6
  <2> QED
    BY <2>1 DEF AfterSale, Position, RiskStates
<1> QED
  BY <1>1, <1>2, <1>3, <1>4, <1>5, <1>6

\* A mark and a failed quote leave a position of the same signal.
LEMMA MarkedType ==
    ASSUME NEW pos \in Position, NEW value \in Nat
    PROVE  Marked(pos, value) \in Position /\ Marked(pos, value).signal = pos.signal
<1> DEFINE peak  == IF pos.tpDone THEN MaxOf(pos.peak, value) ELSE pos.peak
           state == IF pos.state = "EXIT_PENDING" THEN pos.state ELSE "NORMAL"
<1>1. peak \in Nat /\ state \in RiskStates /\ 0 \in 0 .. FailureLimit
  BY ConstantAssumption DEF Position, RiskStates, MaxOf
<1>2. Marked(pos, value) = [pos EXCEPT !.peak = peak, !.failures = 0, !.state = state]
  BY DEF Marked
<1> HIDE DEF peak, state
<1> QED
  BY <1>1, <1>2 DEF Position

\* (record_quote_failure)
LEMMA QuoteFailedType ==
    ASSUME NEW pos \in Position, NEW gap \in BOOLEAN
    PROVE  QuoteFailed(pos, gap) \in Position /\ QuoteFailed(pos, gap).signal = pos.signal
<1> DEFINE n     == MinOf(pos.failures + 1, FailureLimit)
           state == IF n = FailureLimit \/ gap THEN "DEGRADED" ELSE pos.state
<1>1. n \in 0 .. FailureLimit /\ state \in RiskStates
  BY ConstantAssumption DEF Position, RiskStates, MinOf
<1>2. QuoteFailed(pos, gap) = [pos EXCEPT !.failures = n, !.state = state]
  BY DEF QuoteFailed
<1> HIDE DEF n, state
<1> QED
  BY <1>1, <1>2 DEF Position

-----------------------------------------------------------------------------
(* The log                                                                   *)

\* Keeping the youngest events of a log keeps a log.
LEMMA LastOfType ==
    ASSUME NEW S, NEW s \in Seq(S), NEW n \in Nat \ {0}
    PROVE  LastOf(s, n) \in Seq(S)
<1>1. CASE Len(s) <= n
  BY <1>1 DEF LastOf
<1>2. CASE ~ (Len(s) <= n)
  <2>1. /\ Len(s) \in Nat
        /\ \A i \in Len(s) - n + 1 .. Len(s) : s[i] \in S
    BY <1>2, LenProperties, ElementOfSeq
  <2> QED
    BY <1>2, <2>1, SubSeqProperties DEF LastOf
<1> QED
  BY <1>1, <1>2

-----------------------------------------------------------------------------
(* Type correctness                                                          *)

\* Replacing one open position by another of the same token.
LEMMA ReplaceType ==
    ASSUME LedgerTypeOK, NEW m \in Opened, NEW q,
           q \in Position, q.signal = positions[m].signal,
           positions' = [positions EXCEPT ![m] = q],
           cash' \in Nat, events' \in Seq(Event), nextSeq' \in Nat
    PROVE  LedgerTypeOK'
BY DEF LedgerTypeOK, Opened

\* A step of one process that leaves its list of positions alone.
LEMMA ProcChangeType ==
    ASSUME ProcTypeOK, NEW p \in Procs, NEW label \in Labels, NEW j,
           j \in IF label = "idle" THEN {NoJob} ELSE Job,
           pc' = [pc EXCEPT ![p] = label],
           job' = [job EXCEPT ![p] = j],
           todo' = todo
    PROVE  ProcTypeOK'
BY DEF ProcTypeOK

\* A process that ends its evaluation or its exit.
LEMMA FinishType ==
    ASSUME ProcTypeOK, NEW p \in Procs, Finish(p), todo' = todo
    PROVE  ProcTypeOK'
BY ProcChangeType DEF Finish, GoTo, Labels

\* A process that hands its exit to its exception handler.
LEMMA AbandonType ==
    ASSUME ProcTypeOK, NEW p \in Procs, pc[p] # "idle", Abandon(p)
    PROVE  ProcTypeOK'
<1>1. job[p] \in Job
  BY DEF ProcTypeOK
<1>2. [job[p] EXCEPT !.degraded = TRUE] \in Job
  BY <1>1 DEF Job
<1> QED
  BY <1>2, ProcChangeType DEF Abandon, GoTo, Labels, ProcTypeOK

\* An empty ledger and idle processes.
LEMMA InitType == Init => TypeOK
<1> SUFFICES ASSUME Init PROVE TypeOK
  OBVIOUS
<1>1. LedgerTypeOK
  BY ConstantAssumption DEF Init, LedgerTypeOK, Opened
<1>2. {} \in SUBSET Mints /\ <<>> \in [{} -> Position]
  OBVIOUS
<1>3. ProcTypeOK
  BY <1>2 DEF Init, ProcTypeOK, Labels
<1> QED
  BY <1>1, <1>3, ConstantAssumption DEF TypeOK, Init

\* The operations of the monitor.
LEMMA MonitorType ==
    ASSUME TypeOK,
           \/ \E s \in Signals, lot \in Lots : Buy(s, lot)
           \/ \E s \in Signals, type \in {"SIGNAL_REJECTED", "SKIPPED_BY_RPC_ERROR"} :
                 LogSkip(s, type)
    PROVE  TypeOK'
<1>1. ASSUME NEW s \in Signals, NEW lot \in Lots, Buy(s, lot)
      PROVE  TypeOK'
  <2> DEFINE m   == SignalMint[s]
             pos == [id |-> nextSeq, signal |-> s, amount |-> lot.amount, cost |-> lot.cost, state |-> "NORMAL",
                     exitId |-> NoExit, tpDone |-> FALSE, peak |-> 0, failures |-> 0]
             e   == [type |-> "BUY", seq |-> nextSeq, mint |-> m, signal |-> s,
                     cost |-> lot.cost, amount |-> lot.amount]
  <2>1. lot.cost \in Nat \ {0} /\ lot.amount \in Nat \ {0} /\ m \in Mints
    BY ConstantAssumption
  <2>3. pos \in Position /\ pos.signal = s
    BY <2>1, ConstantAssumption DEF Position, RiskStates, TypeOK, LedgerTypeOK
  <2>4. e \in Event
    BY <2>1 DEF Event, BuyEvent, TypeOK, LedgerTypeOK
  <2>5. positions' = With(positions, m, pos) /\ events' = Append(events, e)
    BY <1>1 DEF Buy
  <2>6. /\ Opened' = Opened \cup {m}
        /\ positions' \in [Opened' -> Position]
        /\ \A x \in Opened' : SignalMint[positions'[x].signal] = x
    <3> HIDE DEF pos, m
    <3>1. positions' = [y \in Opened \cup {m} |-> IF y = m THEN pos ELSE positions[y]]
      BY <2>5 DEF With, Opened
    <3> QED
      BY <3>1, <2>3 DEF Opened, TypeOK, LedgerTypeOK, m
  <2>7. LedgerTypeOK'
    <3>1. cash' \in Nat /\ nextSeq' \in Nat
      BY <1>1, <2>1 DEF Buy, MayBuy, TypeOK, LedgerTypeOK
    <3>2. events' \in Seq(Event)
      <4> HIDE DEF e
      <4> QED
        BY <2>4, <2>5 DEF TypeOK, LedgerTypeOK
    <3> HIDE DEF m
    <3> QED
      BY <3>1, <3>2, <2>6, <2>1 DEF TypeOK, LedgerTypeOK
  <2> QED
    BY <1>1, <2>7 DEF Buy, procs, TypeOK, ProcTypeOK
<1>2. ASSUME NEW s \in Signals, NEW type \in {"SIGNAL_REJECTED", "SKIPPED_BY_RPC_ERROR"},
             LogSkip(s, type)
      PROVE  TypeOK'
  <2> DEFINE e == [type |-> type, seq |-> nextSeq, mint |-> SignalMint[s], signal |-> s]
  <2>1. e \in Event
    BY ConstantAssumption DEF Event, SkipEvent, TypeOK, LedgerTypeOK
  <2>2. events' = LastOf(Append(events, e), MaxEvents)
    BY <1>2 DEF LogSkip
  <2> HIDE DEF e
  <2>3. events' \in Seq(Event)
    <3>1. Append(events, e) \in Seq(Event)
      BY <2>1 DEF TypeOK, LedgerTypeOK
    <3>2. LastOf(Append(events, e), MaxEvents) \in Seq(Event)
      BY <3>1, LastOfType, ConstantAssumption
    <3> QED
      BY <2>2, <3>2
  <2> QED
    BY <1>2, <2>3 DEF LogSkip, procs, TypeOK, LedgerTypeOK, ProcTypeOK, Opened
<1> QED
  BY <1>1, <1>2

\* A view of a position that is being worked on is a position of its token.
LEMMA JobType ==
    ASSUME TypeOK, NEW p \in Procs, pc[p] # "idle"
    PROVE  job[p] \in Job
BY DEF TypeOK, ProcTypeOK

\* The operations that change one position only if it is the one p knows.
LEMMA ChangePositionType ==
    ASSUME TypeOK, NEW p \in Procs, NEW f, ChangePosition(p, f),
           SamePosition(job[p].mint, job[p].view.id) =>
              f \in Position /\ f.signal = positions[job[p].mint].signal,
           UNCHANGED <<cash, events, nextSeq>>
    PROVE  LedgerTypeOK'
<1>1. CASE SamePosition(job[p].mint, job[p].view.id)
  <2>1. job[p].mint \in Opened
    BY <1>1 DEF SamePosition
  <2>2. positions' = [positions EXCEPT ![job[p].mint] = f]
    BY <1>1 DEF ChangePosition
  <2> QED
    BY <1>1, <2>1, <2>2, ReplaceType DEF TypeOK, LedgerTypeOK
<1>2. CASE ~ SamePosition(job[p].mint, job[p].view.id)
  BY <1>2 DEF ChangePosition, TypeOK, LedgerTypeOK, Opened
<1> QED
  BY <1>1, <1>2

\* Reading: Poll, Evaluate and the start of a manual close.
LEMMA ReadType ==
    ASSUME TypeOK, NEW p \in Procs,
           \/ Poll(p)
           \/ \E m \in Mints : Evaluate(p, m)
           \/ \E m \in Mints : StartManualClose(p, m)
    PROVE  TypeOK'
<1> USE DEF TypeOK
<1>1. ASSUME UNCHANGED ledger PROVE LedgerTypeOK'
  BY <1>1 DEF ledger, LedgerTypeOK, Opened
<1>2. CASE Poll(p)
  <2>1. Opened \in SUBSET Mints /\ positions \in [Opened -> Position]
    BY DEF LedgerTypeOK
  <2>2. ProcTypeOK'
    BY <1>2, <2>1 DEF Poll, ProcTypeOK
  <2> QED
    BY <1>1, <1>2, <2>2 DEF Poll
<1>3. ASSUME NEW m \in Mints, Evaluate(p, m)
      PROVE  TypeOK'
  <2>1. PICK open \in SUBSET Mints : todo[p] \in [open -> Position]
    BY DEF ProcTypeOK
  <2>2. todo[p][m] \in Position
    BY <1>3, <2>1 DEF Evaluate
  <2>3. open \ {m} \in SUBSET Mints /\ Without(todo[p], m) \in [open \ {m} -> Position]
    BY <2>1 DEF Without
  <2>4. todo' = [todo EXCEPT ![p] = Without(todo[p], m)]
    BY <1>3 DEF Evaluate
  <2>5. /\ DOMAIN todo' = Procs
        /\ \A q \in Procs : \E o \in SUBSET Mints : todo'[q] \in [o -> Position]
    BY <2>3, <2>4 DEF ProcTypeOK
  <2>6. CASE todo[p][m].state = "EXIT_PENDING"
    BY <1>1, <1>3, <2>5, <2>6 DEF Evaluate, ProcTypeOK
  <2>7. CASE todo[p][m].state # "EXIT_PENDING"
    <3> DEFINE j == [mint |-> m, view |-> todo[p][m], reason |-> StopLoss,
                     amount |-> todo[p][m].amount, value |-> 0, degraded |-> FALSE]
    <3>1. j \in Job
      BY <2>2 DEF Job, Position, Reasons
    <3>2. pc' = [pc EXCEPT ![p] = "quoting"] /\ job' = [job EXCEPT ![p] = j]
      BY <1>3, <2>7 DEF Evaluate, GoTo
    <3> HIDE DEF j
    <3> QED
      BY <1>1, <1>3, <2>5, <3>1, <3>2 DEF Evaluate, ProcTypeOK, Labels
  <2> QED
    BY <2>6, <2>7
<1>4. ASSUME NEW m \in Mints, StartManualClose(p, m)
      PROVE  TypeOK'
  <2> DEFINE j == [mint |-> m, view |-> positions[m], reason |-> ManualClose,
                   amount |-> positions[m].amount, value |-> 0, degraded |-> FALSE]
  <2>1. j \in Job
    BY <1>4 DEF StartManualClose, Job, Position, Reasons, LedgerTypeOK
  <2>2. pc' = [pc EXCEPT ![p] = "claiming"] /\ job' = [job EXCEPT ![p] = j] /\ todo' = todo
    BY <1>4 DEF StartManualClose, GoTo
  <2> HIDE DEF j
  <2>3. ProcTypeOK'
    BY <2>1, <2>2, ProcChangeType DEF Labels
  <2> QED
    BY <1>1, <1>4, <2>3 DEF StartManualClose
<1> QED
  BY <1>2, <1>3, <1>4

\* Recording what a quote said.
LEMMA QuoteType ==
    ASSUME TypeOK, NEW p \in Procs,
           \/ \E price \in Prices : QuoteOk(p, price) \/ RequoteOk(p, price)
           \/ \E gap \in BOOLEAN : RecordFailure(p, gap)
           \/ RequoteFails(p)
    PROVE  TypeOK'
<1> USE DEF TypeOK
<1>1. ASSUME NEW price \in Prices, QuoteOk(p, price)
      PROVE  TypeOK'
  <2> DEFINE value == price * job[p].view.amount
  <2>1. job[p] \in Job
    BY <1>1, JobType DEF QuoteOk
  <2>2. value \in Nat
    BY <2>1, ConstantAssumption DEF Job, Position
  <2>3. LedgerTypeOK'
    <3>1. SamePosition(job[p].mint, job[p].view.id) =>
             positions[job[p].mint] \in Position
      BY DEF SamePosition, LedgerTypeOK
    <3> HIDE DEF value
    <3> QED
      BY <1>1, <2>2, <3>1, MarkedType, ChangePositionType DEF QuoteOk, value
  <2>4. [job[p] EXCEPT !.value = value,
                       !.reason = IF job[p].view.tpDone THEN TrailingStop ELSE StopLoss]
           \in Job
    BY <2>1, <2>2 DEF Job, Reasons
  <2>5. [job[p] EXCEPT !.reason = TakeProfit] \in Job
    BY <2>1 DEF Job, Reasons
  <2>6. ProcTypeOK'
    <3> HIDE DEF value
    <3>1. todo' = todo
      BY <1>1 DEF QuoteOk
    <3>2. CASE Finish(p)
      BY <3>1, <3>2, FinishType
    <3>3. CASE GoTo(p, "claiming") /\ job' = [job EXCEPT ![p] =
             [job[p] EXCEPT !.value = value,
                !.reason = IF job[p].view.tpDone THEN TrailingStop ELSE StopLoss]]
      BY <2>4, <3>1, <3>3, ProcChangeType DEF GoTo, Labels
    <3>4. CASE GoTo(p, "claiming")
               /\ job' = [job EXCEPT ![p] = [job[p] EXCEPT !.reason = TakeProfit]]
      BY <2>5, <3>1, <3>4, ProcChangeType DEF GoTo, Labels
    <3> QED
      BY <1>1, <3>2, <3>3, <3>4 DEF QuoteOk, value, ProcTypeOK
  <2> QED
    BY <1>1, <2>3, <2>6 DEF QuoteOk
<1>2. ASSUME NEW price \in Prices, RequoteOk(p, price)
      PROVE  TypeOK'
  <2>1. job[p] \in Job
    BY <1>2, JobType DEF RequoteOk
  <2>2. [job[p] EXCEPT !.value = price * job[p].amount] \in Job
    BY <2>1, ConstantAssumption DEF Job
  <2>3. ProcTypeOK'
    BY <1>2, <2>2, ProcChangeType DEF RequoteOk, GoTo, Labels, ProcTypeOK
  <2> QED
    BY <1>2, <2>3 DEF RequoteOk, ledger, LedgerTypeOK, Opened
<1>3. ASSUME NEW gap \in BOOLEAN, RecordFailure(p, gap)
      PROVE  TypeOK'
  <2>1. SamePosition(job[p].mint, job[p].view.id) => positions[job[p].mint] \in Position
    BY DEF SamePosition, LedgerTypeOK
  <2>2. LedgerTypeOK'
    BY <1>3, <2>1, QuoteFailedType, ChangePositionType DEF RecordFailure
  <2>3. ProcTypeOK'
    BY <1>3, FinishType DEF RecordFailure
  <2> QED
    BY <1>3, <2>2, <2>3 DEF RecordFailure
<1>4. CASE RequoteFails(p)
  <2>1. ProcTypeOK'
    BY <1>4, AbandonType DEF RequoteFails
  <2> QED
    BY <1>4, <2>1 DEF RequoteFails, Abandon, ledger, LedgerTypeOK, Opened
<1> QED
  BY <1>1, <1>2, <1>3, <1>4

\* Claiming and releasing.
LEMMA ClaimType ==
    ASSUME TypeOK, NEW p \in Procs, Claim(p) \/ ClaimRefused(p) \/ Release(p)
    PROVE  TypeOK'
<1> USE DEF TypeOK
<1>1. CASE Claim(p)
  <2> DEFINE m == job[p].mint
             a == ExitAmount(job[p].reason, positions[m].amount)
             q == [positions[m] EXCEPT !.state = "EXIT_PENDING", !.exitId = p]
  <2>1. job[p] \in Job /\ m \in Opened /\ positions[m] \in Position
    BY <1>1, JobType DEF Claim, MayClaim, SamePosition, LedgerTypeOK
  <2>2. a \in Nat
    BY <2>1, ExitAmountType DEF Job, Position
  <2>3. q \in Position /\ q.signal = positions[m].signal
    BY <2>1 DEF Position, RiskStates
  <2>4. [job[p] EXCEPT !.amount = a] \in Job
    BY <2>1, <2>2 DEF Job
  <2>5. positions' = [positions EXCEPT ![m] = q]
    BY <1>1 DEF Claim
  <2>6. LedgerTypeOK'
    <3> HIDE DEF m, q
    <3> QED
      BY <1>1, <2>1, <2>3, <2>5, ReplaceType DEF Claim, LedgerTypeOK
  <2>7. \E label \in Labels \ {"idle"} : GoTo(p, label)
    BY <1>1 DEF Claim, Labels
  <2>8. job' = [job EXCEPT ![p] = [job[p] EXCEPT !.amount = a]] /\ todo' = todo
    BY <1>1 DEF Claim
  <2>9. ProcTypeOK'
    <3> HIDE DEF a
    <3> QED
      BY <2>4, <2>7, <2>8, ProcChangeType DEF GoTo
  <2> QED
    BY <1>1, <2>6, <2>9 DEF Claim
<1>2. CASE ClaimRefused(p)
  BY <1>2, FinishType DEF ClaimRefused, ledger, LedgerTypeOK, Opened
<1>3. CASE Release(p)
  <2> DEFINE m == job[p].mint
             q == [positions[m] EXCEPT !.exitId = NoExit,
                     !.state = IF job[p].degraded THEN "DEGRADED" ELSE "NORMAL"]
  <2>1. LedgerTypeOK'
    <3>1. CASE HasClaim(p)
      <4>1. m \in Opened /\ positions[m] \in Position
        BY <3>1 DEF HasClaim, SamePosition, LedgerTypeOK
      <4>2. q \in Position /\ q.signal = positions[m].signal
        BY <4>1 DEF Position, RiskStates
      <4>3. positions' = [positions EXCEPT ![m] = q]
        BY <1>3, <3>1 DEF Release
      <4> HIDE DEF m, q
      <4> QED
        BY <1>3, <4>1, <4>2, <4>3, ReplaceType DEF Release, LedgerTypeOK
    <3>2. CASE ~ HasClaim(p)
      BY <1>3, <3>2 DEF Release, LedgerTypeOK, Opened
    <3> QED
      BY <3>1, <3>2
  <2>2. ProcTypeOK'
    <3>1. CASE job[p].degraded
      <4>1. job[p] \in Job
        BY <1>3, JobType DEF Release
      <4>2. pc' = [pc EXCEPT ![p] = "failing"] /\ job' = job /\ todo' = todo
        BY <1>3, <3>1 DEF Release, GoTo
      <4> QED
        BY <4>1, <4>2 DEF ProcTypeOK, Labels
    <3>2. CASE ~ job[p].degraded
      BY <1>3, <3>2, FinishType DEF Release
    <3> QED
      BY <3>1, <3>2
  <2> QED
    BY <1>3, <2>1, <2>2 DEF Release
<1> QED
  BY <1>1, <1>2, <1>3

\* Selling.
LEMMA SaleType ==
    ASSUME TypeOK, NEW p \in Procs,
           Sell(p) \/ SellRefused(p) \/ CloseExperiment(p)
    PROVE  TypeOK'
<1> USE DEF TypeOK
<1>1. CASE Sell(p)
  <2> DEFINE j    == job[p]
             m    == j.mint
             pos  == positions[m]
             left == AfterSale(pos, j)
             e    == [type |-> "SELL", seq |-> nextSeq, mint |-> m, id |-> pos.id,
                      signal |-> pos.signal, reason |-> j.reason, sold |-> Sold(pos, j),
                      proceeds |-> j.value, pnl |-> Pnl(pos, j)]
  <2>1. j \in Job /\ m \in Opened /\ m \in Mints /\ pos \in Position
    BY <1>1, JobType DEF Sell, HasClaim, SamePosition, LedgerTypeOK
  <2>2. /\ Sold(pos, j) \in Nat /\ Pnl(pos, j) \in Int
        /\ left.amount # 0 => left \in Position
        /\ left.signal = pos.signal
    BY <2>1, AfterSaleType
  <2>3. e \in Event
    BY <2>1, <2>2 DEF Event, SellEvent, Job, Position, LedgerTypeOK
  <2>4. cash' \in Nat /\ nextSeq' \in Nat /\ realized' \in Int
    <3> HIDE DEF left, e
    <3> QED
      BY <1>1, <2>1, <2>2 DEF Sell, Job, LedgerTypeOK
  <2>5. events' \in Seq(Event)
    <3>1. events' = Append(events, e)
      BY <1>1 DEF Sell
    <3> HIDE DEF e
    <3> QED
      BY <2>3, <3>1 DEF LedgerTypeOK
  <2>6. CASE left.amount > 0 /\ positions' = [positions EXCEPT ![m] = left] /\ Finish(p)
    <3> HIDE DEF left, m
    <3>1. left \in Position /\ left.signal = positions[m].signal
      BY <2>2, <2>6 DEF m
    <3>2. LedgerTypeOK'
      BY <2>1, <2>4, <2>5, <2>6, <3>1, ReplaceType
    <3> QED
      BY <1>1, <2>4, <2>6, <3>2, FinishType DEF Sell
  <2>7. CASE positions' = Without(positions, m) /\ GoTo(p, "closing") /\ job' = job
    <3>1. LedgerTypeOK'
      <4> HIDE DEF m
      <4>1. positions' = [x \in Opened \ {m} |-> positions[x]]
        BY <2>7 DEF Without, Opened
      <4> QED
        BY <2>4, <2>5, <4>1 DEF LedgerTypeOK, Opened
    <3>2. ProcTypeOK'
      BY <1>1, <2>1, <2>7 DEF Sell, GoTo, Labels, ProcTypeOK
    <3> QED
      BY <1>1, <2>4, <3>1, <3>2 DEF Sell
  <2> QED
    BY <1>1, <2>6, <2>7 DEF Sell
<1>2. CASE SellRefused(p)
  <2>1. ProcTypeOK'
    BY <1>2, FinishType, AbandonType DEF SellRefused
  <2> QED
    BY <1>2, <2>1 DEF SellRefused, Abandon, ledger, LedgerTypeOK, Opened
<1>3. CASE CloseExperiment(p)
  BY <1>3, FinishType DEF CloseExperiment, ledger, LedgerTypeOK, Opened
<1> QED
  BY <1>1, <1>2, <1>3

\* Crashes and lock timeouts.
LEMMA FaultType ==
    ASSUME TypeOK, NEW p \in Procs, LockTimesOut(p) \/ Crash(p)
    PROVE  TypeOK'
<1> USE DEF TypeOK
<1>1. UNCHANGED ledger /\ UNCHANGED realized /\ Fault
  BY DEF LockTimesOut, Crash, Abandon
<1>2. LedgerTypeOK' /\ faults' \in 0 .. MaxFaults /\ realized' \in Int
  BY <1>1, ConstantAssumption DEF ledger, LedgerTypeOK, Opened, Fault
<1>3. CASE LockTimesOut(p)
  BY <1>2, <1>3, FinishType, AbandonType DEF LockTimesOut
<1>4. CASE Crash(p)
  <2>1. {} \in SUBSET Mints /\ <<>> \in [{} -> Position]
    OBVIOUS
  <2> QED
    BY <1>2, <1>4, <2>1 DEF Crash, Finish, GoTo, ProcTypeOK, Labels
<1> QED
  BY <1>3, <1>4

\* record_paper_sell and the other operations keep the ledger well formed: in
\* particular an open position always holds tokens and cost, however its sales
\* were rounded, and the cash never goes below zero.
THEOREM TypeCorrect == Spec => []TypeOK
<1>1. Init => TypeOK
  BY InitType
<1>2. TypeOK /\ [Next]_vars => TypeOK'
  <2> SUFFICES ASSUME TypeOK, [Next]_vars PROVE TypeOK'
    OBVIOUS
  <2>1. CASE UNCHANGED vars
    BY <2>1 DEF vars, ledger, procs, TypeOK, LedgerTypeOK, ProcTypeOK, Opened
  <2>2. CASE Next
    BY <2>2, MonitorType, ReadType, QuoteType, ClaimType, SaleType, FaultType
       DEF Next, ProcStep
  <2> QED
    BY <2>1, <2>2
<1> QED
  BY <1>1, <1>2, PTL DEF Spec
-----------------------------------------------------------------------------
(* The order of the log: the sequence numbers of the document go up.         *)

Rising(s) == \A i, j \in 1 .. Len(s) : i < j => s[i].seq < s[j].seq
LogInv ==
    /\ Rising(events)
    /\ \A i \in 1 .. Len(events) : events[i].seq < nextSeq

\* What LastOf keeps is the end of a log, in its order.
LEMMA LastOfIsEnd ==
    ASSUME NEW s \in Seq(Event), NEW n \in Nat \ {0}
    PROVE  \E d \in Nat :
              /\ Len(LastOf(s, n)) = Len(s) - d
              /\ Len(s) > 0 => d < Len(s)
              /\ \A i \in 1 .. Len(s) - d : LastOf(s, n)[i] = s[i + d]
<1>1. Len(s) \in Nat /\ n \in Nat /\ n > 0
  BY LenProperties
<1>2. CASE Len(s) <= n
  <2>1. LastOf(s, n) = s
    BY <1>2 DEF LastOf
  <2> WITNESS 0 \in Nat
  <2> QED
    BY <1>1, <2>1
<1>3. CASE ~ (Len(s) <= n)
  <2> DEFINE d == Len(s) - n
  <2>1. d \in Nat /\ d + 1 \in 1 .. Len(s) /\ d < Len(s)
    BY <1>1, <1>3
  <2>2. \A x \in d + 1 .. Len(s) : s[x] \in Event
    BY <2>1, ElementOfSeq, <1>1
  <2>3. LastOf(s, n) = SubSeq(s, d + 1, Len(s))
    BY <1>3 DEF LastOf
  <2>4. /\ Len(LastOf(s, n)) = Len(s) - (d + 1) + 1
        /\ \A i \in 1 .. Len(s) - (d + 1) + 1 : LastOf(s, n)[i] = s[d + 1 + i - 1]
    BY <1>1, <2>1, <2>2, <2>3, SubSeqProperties
  <2>5. Len(LastOf(s, n)) = Len(s) - d
    BY <1>1, <2>1, <2>4
  <2>6. \A i \in 1 .. Len(s) - d : LastOf(s, n)[i] = s[i + d]
    BY <1>1, <2>1, <2>4
  <2> HIDE DEF d
  <2> QED
    BY <2>1, <2>5, <2>6
<1> QED
  BY <1>2, <1>3

\* A log with one more event, the youngest, that loses d events of its old end.
LEMMA LogGrows ==
    ASSUME TypeOK, LogInv, NEW e \in Event, e.seq = nextSeq, nextSeq' = nextSeq + 1,
           NEW d \in Nat, d < Len(events) + 1,
           Len(events') = Len(events) + 1 - d,
           \A i \in 1 .. Len(events') : events'[i] = Append(events, e)[i + d]
    PROVE  /\ LogInv'
           /\ \A f \in EventSet : f \in EventSet' \/ \A g \in EventSet' : f.seq < g.seq
           /\ \E f \in EventSet' : f.seq = nextSeq
<1>1. /\ Len(events) \in Nat /\ nextSeq \in Nat
      /\ \A i \in 1 .. Len(events) : events[i].seq \in Nat
  <2>1. \A f \in Event : f.seq \in Nat
    BY DEF Event, BuyEvent, SellEvent, SkipEvent
  <2> QED
    BY <2>1, LenProperties, ElementOfSeq DEF TypeOK, LedgerTypeOK
<1> DEFINE n == Len(events)
           s == Append(events, e)
<1>2. /\ s[n + 1] = e
      /\ \A i \in 1 .. n : s[i] = events[i]
  BY DEF TypeOK, LedgerTypeOK
<1>3. /\ \A i \in 1 .. n + 1 : s[i].seq \in Nat /\ s[i].seq <= nextSeq
      /\ \A i, j \in 1 .. n + 1 : i < j => s[i].seq < s[j].seq
  <2>1. \A i \in 1 .. n + 1 : i = n + 1 \/ i \in 1 .. n
    BY <1>1
  <2>2. \A i \in 1 .. n : s[i].seq \in Nat /\ s[i].seq < nextSeq
    BY <1>1, <1>2 DEF LogInv
  <2>3. s[n + 1].seq = nextSeq
    BY <1>2
  <2>4. \A i, j \in 1 .. n : i < j => s[i].seq < s[j].seq
    BY <1>2 DEF LogInv, Rising
  <2>5. \A i, j \in 1 .. n + 1 : i < j => i \in 1 .. n
    BY <1>1
  <2>6. ASSUME NEW i \in 1 .. n + 1 PROVE s[i].seq \in Nat /\ s[i].seq <= nextSeq
    <3> HIDE DEF s
    <3>1. CASE i \in 1 .. n
      <4>1. s[i].seq \in Nat /\ s[i].seq < nextSeq
        BY <2>2, <3>1
      <4> QED
        BY <1>1, <4>1
    <3>2. CASE i = n + 1
      BY <1>1, <2>3, <3>2
    <3> QED
      BY <2>1, <3>1, <3>2
  <2>7. ASSUME NEW i \in 1 .. n + 1, NEW j \in 1 .. n + 1, i < j PROVE s[i].seq < s[j].seq
    <3> HIDE DEF s
    <3>1. i \in 1 .. n
      BY <2>5, <2>7
    <3>2. CASE j \in 1 .. n
      BY <2>4, <2>7, <3>1, <3>2
    <3>3. CASE j = n + 1
      BY <2>2, <2>3, <3>1, <3>3
    <3> QED
      BY <2>1, <3>2, <3>3
  <2> HIDE DEF s
  <2> QED
    BY <2>6, <2>7
<1>8. \A i \in 1 .. Len(events') : events'[i] = s[i + d]
  OBVIOUS
<1> HIDE DEF s
<1>4. \A i \in 1 .. n + 1 - d : events'[i] = s[i + d] /\ i + d \in 1 .. n + 1
  BY <1>1, <1>8
<1>5. LogInv'
  <2>1. \A i, j \in 1 .. n + 1 - d : i < j => events'[i].seq < events'[j].seq
    BY <1>1, <1>3, <1>4
  <2>2. \A i \in 1 .. n + 1 - d : events'[i].seq < nextSeq'
    BY <1>1, <1>3, <1>4
  <2> QED
    BY <2>1, <2>2 DEF LogInv, Rising
<1>6. \E f \in EventSet' : f.seq = nextSeq
  <2>1. n + 1 - d \in 1 .. Len(events') /\ events'[n + 1 - d] = e
    BY <1>1, <1>2, <1>4
  <2> QED
    BY <2>1 DEF EventSet
<1>7. ASSUME NEW f \in EventSet, NEW g \in EventSet', ~ (f.seq < g.seq)
      PROVE  f \in EventSet'
  <2>1. PICK i \in 1 .. n : f = s[i]
    BY <1>2, <1>7 DEF EventSet
  <2>2. PICK j \in 1 .. n + 1 - d : g = s[j + d] /\ j + d \in 1 .. n + 1
    BY <1>4, <1>7 DEF EventSet
  <2>3. ~ (i < j + d)
    BY <1>1, <1>3, <1>7, <2>1, <2>2
  <2>4. i - d \in 1 .. n + 1 - d
    BY <1>1, <2>2, <2>3
  <2>5. events'[i - d] = f
    BY <1>1, <1>4, <2>1, <2>4
  <2> QED
    BY <2>4, <2>5 DEF EventSet
<1> QED
  BY <1>5, <1>6, <1>7

\* Every step leaves the log alone, or adds an event and perhaps trims.
LEMMA LogStep ==
    ASSUME TypeOK, LogInv, [Next]_vars
    PROVE  /\ LogInv'
           /\ \A f \in EventSet : f \in EventSet' \/ \A g \in EventSet' : f.seq < g.seq
           /\ nextSeq' # nextSeq => \E f \in EventSet' : f.seq = nextSeq
<1> DEFINE Goal == /\ LogInv'
                   /\ \A f \in EventSet : f \in EventSet' \/ \A g \in EventSet' : f.seq < g.seq
                   /\ nextSeq' # nextSeq => \E f \in EventSet' : f.seq = nextSeq
<1> SUFFICES Goal
  OBVIOUS
<1>0. events \in Seq(Event) /\ nextSeq \in Nat /\ Len(events) \in Nat
  BY LenProperties DEF TypeOK, LedgerTypeOK
<1>1. ASSUME UNCHANGED <<events, nextSeq>> PROVE Goal
  BY <1>1 DEF LogInv, EventSet, Rising
<1>2. ASSUME NEW e \in Event, e.seq = nextSeq, nextSeq' = nextSeq + 1, events' = Append(events, e)
      PROVE  Goal
  <2>1. Len(events') = Len(events) + 1 - 0
    BY <1>0, <1>2
  <2>2. \A i \in 1 .. Len(events') : events'[i] = Append(events, e)[i + 0]
    BY <1>0, <1>2, <2>1
  <2>3. 0 \in Nat /\ 0 < Len(events) + 1
    BY <1>0
  <2> QED
    BY <1>2, <2>1, <2>2, <2>3, LogGrows
<1>3. ASSUME NEW e \in Event, e.seq = nextSeq, nextSeq' = nextSeq + 1,
             events' = LastOf(Append(events, e), MaxEvents)
      PROVE  Goal
  <2>1. Append(events, e) \in Seq(Event) /\ Len(Append(events, e)) = Len(events) + 1
    BY <1>0
  <2>2. PICK d \in Nat : /\ Len(events') = Len(events) + 1 - d
                         /\ d < Len(events) + 1
                         /\ \A i \in 1 .. Len(events) + 1 - d : events'[i] = Append(events, e)[i + d]
    <3> DEFINE s == Append(events, e)
    <3>1. s \in Seq(Event) /\ Len(s) = Len(events) + 1 /\ events' = LastOf(s, MaxEvents)
      BY <1>3, <2>1
    <3> HIDE DEF s
    <3>2. \E d \in Nat : /\ Len(LastOf(s, MaxEvents)) = Len(s) - d
                         /\ Len(s) > 0 => d < Len(s)
                         /\ \A i \in 1 .. Len(s) - d : LastOf(s, MaxEvents)[i] = s[i + d]
      <4>1. MaxEvents \in Nat \ {0}
        BY ConstantAssumption
      <4> QED
        BY <3>1, <4>1, LastOfIsEnd
    <3>3. PICK d \in Nat : /\ Len(events') = Len(s) - d
                           /\ Len(s) > 0 => d < Len(s)
                           /\ \A i \in 1 .. Len(s) - d : events'[i] = s[i + d]
      BY <3>1, <3>2
    <3>4. Len(events') = Len(events) + 1 - d /\ d < Len(events) + 1
      BY <1>0, <3>1, <3>3
    <3>5. \A i \in 1 .. Len(events) + 1 - d : events'[i] = s[i + d]
      BY <3>1, <3>3
    <3> QED
      BY <3>4, <3>5 DEF s
  <2>3. \A i \in 1 .. Len(events') : events'[i] = Append(events, e)[i + d]
    BY <2>2
  <2> QED
    BY <1>3, <2>2, <2>3, LogGrows
<1>4. ASSUME NEW s \in Signals, NEW lot \in Lots, Buy(s, lot) PROVE Goal
  <2> DEFINE e == [type |-> "BUY", seq |-> nextSeq, mint |-> SignalMint[s], signal |-> s,
                   cost |-> lot.cost, amount |-> lot.amount]
  <2>1. e \in Event /\ e.seq = nextSeq
    BY <1>0, ConstantAssumption DEF Event, BuyEvent
  <2>2. events' = Append(events, e) /\ nextSeq' = nextSeq + 1
    BY <1>4 DEF Buy
  <2> HIDE DEF e
  <2> QED
    BY <1>2, <2>1, <2>2
<1>5. ASSUME NEW s \in Signals, NEW type \in {"SIGNAL_REJECTED", "SKIPPED_BY_RPC_ERROR"},
             LogSkip(s, type)
      PROVE  Goal
  <2> DEFINE e == [type |-> type, seq |-> nextSeq, mint |-> SignalMint[s], signal |-> s]
  <2>1. e \in Event /\ e.seq = nextSeq
    BY <1>0, ConstantAssumption DEF Event, SkipEvent
  <2>2. events' = LastOf(Append(events, e), MaxEvents) /\ nextSeq' = nextSeq + 1
    BY <1>5 DEF LogSkip
  <2> HIDE DEF e
  <2> QED
    BY <1>3, <2>1, <2>2
<1>6. ASSUME NEW p \in Procs, Sell(p) PROVE Goal
  <2> DEFINE j   == job[p]
             pos == positions[j.mint]
             e   == [type |-> "SELL", seq |-> nextSeq, mint |-> j.mint, id |-> pos.id,
                     signal |-> pos.signal, reason |-> j.reason, sold |-> Sold(pos, j),
                     proceeds |-> j.value, pnl |-> Pnl(pos, j)]
  <2>1. j \in Job /\ pos \in Position /\ HasClaim(p) /\ j.mint \in Mints
    BY <1>6, JobType DEF Sell, HasClaim, SamePosition, TypeOK, LedgerTypeOK
  <2>2. e \in Event /\ e.seq = nextSeq
    BY <1>0, <2>1, AfterSaleType DEF Event, SellEvent, Job, Position
  <2>3. events' = Append(events, e) /\ nextSeq' = nextSeq + 1
    BY <1>6 DEF Sell
  <2> HIDE DEF e
  <2> QED
    BY <1>2, <2>2, <2>3
<1>7. ASSUME NEW p \in Procs, ~ Sell(p),
             \/ ProcStep(p) \/ LockTimesOut(p) \/ Crash(p)
             \/ \E m \in Mints : StartManualClose(p, m)
      PROVE  UNCHANGED <<events, nextSeq>>
  BY <1>7 DEF ProcStep, Poll, Evaluate, QuoteOk, RequoteOk, RecordFailure,
     RequoteFails, Claim, ClaimRefused, SellRefused, Release, CloseExperiment,
     StartManualClose, LockTimesOut, Crash, Abandon, ledger
<1>8. CASE UNCHANGED vars
  BY <1>1, <1>8 DEF vars, ledger
<1> HIDE DEF Goal
<1>9. CASE Next
  <2>1. CASE \E p \in Procs : \/ ProcStep(p) \/ LockTimesOut(p) \/ Crash(p)
                              \/ \E m \in Mints : StartManualClose(p, m)
    <3>1. PICK p \in Procs : \/ ProcStep(p) \/ LockTimesOut(p) \/ Crash(p)
                             \/ \E m \in Mints : StartManualClose(p, m)
      BY <2>1
    <3>2. CASE Sell(p)
      BY <1>6, <3>2
    <3>3. CASE ~ Sell(p)
      BY <1>1, <1>7, <3>1, <3>3
    <3> QED
      BY <3>2, <3>3
  <2> QED
    BY <1>4, <1>5, <1>9, <2>1 DEF Next
<1> QED
  BY <1>8, <1>9

\* The log of the paper ledger is in the order of its sequence numbers, and record_paper_rejection
\* and record_rpc_skip, which trim it, only forget its old end (LogForgetsOldest).
THEOREM OldestIsForgotten == Spec => LogForgetsOldest
<1>1. Init => LogInv
  BY DEF Init, LogInv, Rising
<1>2. TypeOK /\ LogInv /\ [Next]_vars => LogInv'
  BY LogStep
<1>3. TypeOK /\ LogInv /\ [Next]_vars =>
         [/\ \A e \in EventSet : e \in EventSet' \/ \A f \in EventSet' : e.seq < f.seq
          /\ nextSeq' # nextSeq => \E e \in EventSet' : e.seq = nextSeq]_vars
  BY LogStep
<1> QED
  BY TypeCorrect, <1>1, <1>2, <1>3, PTL DEF Spec, LogForgetsOldest
-----------------------------------------------------------------------------
(* A pending exit has a holder                                               *)

\* A step of process p keeps PendingExitHasHolder if every exit pending after
\* it is p's, or was pending before it and somebody else's.
LEMMA HolderStep ==
    ASSUME TypeOK, PendingExitHasHolder, NEW p \in Procs, faults' = faults,
           \A q \in Procs \ {p} : pc'[q] = pc[q] /\ job'[q] = job[q],
           \A m \in Opened' : positions'[m].state = "EXIT_PENDING" =>
              \/ positions'[m].exitId = p /\ Holding(p, m)'
              \/ /\ m \in Opened
                 /\ positions[m].state = "EXIT_PENDING"
                 /\ positions'[m].exitId = positions[m].exitId
                 /\ positions'[m].id = positions[m].id
                 /\ positions[m].exitId # p
    PROVE  PendingExitHasHolder'
BY DEF PendingExitHasHolder, Holding

\* A process that is not at work on an exit holds none, and one that is holds
\* the exit of its own position only.
LEMMA HolderIsWorking ==
    ASSUME TypeOK, PendingExitHasHolder, faults = 0, NEW p \in Procs, NEW m \in Opened,
           positions[m].state = "EXIT_PENDING", positions[m].exitId = p
    PROVE  pc[p] \in {"requoting", "selling", "releasing"} /\ m = job[p].mint /\ HasClaim(p)
BY DEF PendingExitHasHolder, Holding, HasClaim, SamePosition

\* The steps of a process that leave the position of every exit alone: they
\* neither start nor end an exit of p.
LEMMA HolderWithoutSale ==
    ASSUME TypeOK, PendingExitHasHolder, faults = 0, NEW p \in Procs,
           faults' = faults, positions' = positions,
           \A q \in Procs \ {p} : pc'[q] = pc[q] /\ job'[q] = job[q],
           \/ pc[p] \notin {"requoting", "selling", "releasing"}
           \/ ~ HasClaim(p)
           \/ /\ pc'[p] \in {"requoting", "selling", "releasing"}
              /\ job'[p].mint = job[p].mint /\ job'[p].view = job[p].view
    PROVE  PendingExitHasHolder'
<1>1. ASSUME NEW m \in Opened', positions'[m].state = "EXIT_PENDING"
      PROVE  \/ positions'[m].exitId = p /\ Holding(p, m)'
             \/ /\ m \in Opened
                /\ positions[m].state = "EXIT_PENDING"
                /\ positions'[m].exitId = positions[m].exitId
                /\ positions'[m].id = positions[m].id
                /\ positions[m].exitId # p
  <2>1. m \in Opened /\ positions[m].state = "EXIT_PENDING"
    BY <1>1 DEF Opened
  <2>2. CASE positions[m].exitId # p
    BY <2>1, <2>2
  <2>3. CASE positions[m].exitId = p
    <3>1. /\ pc[p] \in {"requoting", "selling", "releasing"} /\ HasClaim(p)
          /\ m = job[p].mint
      BY <2>1, <2>3, HolderIsWorking
    <3>2. /\ pc'[p] \in {"requoting", "selling", "releasing"}
          /\ job'[p].mint = job[p].mint /\ job'[p].view = job[p].view
      BY <3>1
    <3> QED
      BY <2>3, <3>1, <3>2 DEF Holding, HasClaim, SamePosition
  <2> QED
    BY <2>2, <2>3
<1> QED
  BY <1>1, HolderStep

\* Marks and quote failures keep a position's claim and never make an exit
\* pending.
LEMMA PendingKept ==
    ASSUME NEW pos \in Position, NEW f,
           \/ \E value : f = Marked(pos, value)
           \/ \E gap \in BOOLEAN : f = QuoteFailed(pos, gap)
    PROVE  /\ f.state = "EXIT_PENDING" => pos.state = "EXIT_PENDING"
           /\ f.exitId = pos.exitId /\ f.id = pos.id
BY DEF Marked, QuoteFailed, Position

\* Claims, clobbered states, refused sales and releases, in any order of any
\* number of processes, strand no position in EXIT_PENDING while nothing
\* crashes and no lock times out.
THEOREM PendingExitsHeld == Spec => []PendingExitHasHolder
<1>1. Init => PendingExitHasHolder
  BY DEF Init, PendingExitHasHolder, Opened
<1>2. TypeOK /\ PendingExitHasHolder /\ [Next]_vars => PendingExitHasHolder'
  <2> SUFFICES ASSUME TypeOK, PendingExitHasHolder, [Next]_vars PROVE PendingExitHasHolder'
    OBVIOUS
  <2>1. CASE UNCHANGED vars
    BY <2>1 DEF vars, ledger, procs, PendingExitHasHolder, Holding, Opened
  <2>2. CASE faults' # 0
    BY <2>2 DEF PendingExitHasHolder
  <2> SUFFICES ASSUME faults' = 0, Next PROVE PendingExitHasHolder'
    BY <2>1, <2>2
  <2>3. ASSUME NEW s \in Signals, NEW lot \in Lots, Buy(s, lot)
        PROVE  PendingExitHasHolder'
    <3> DEFINE m0 == SignalMint[s]
               pos == [id |-> nextSeq, signal |-> s, amount |-> lot.amount,
                       cost |-> lot.cost, state |-> "NORMAL", exitId |-> NoExit,
                       tpDone |-> FALSE, peak |-> 0, failures |-> 0]
    <3>1. positions' = With(positions, m0, pos) /\ m0 \notin Opened
      BY <2>3 DEF Buy, MayBuy
    <3>2. pos.state = "NORMAL"
      OBVIOUS
    <3> HIDE DEF m0, pos
    <3>3. \A m \in Opened' : positions'[m].state = "EXIT_PENDING" =>
             m \in Opened /\ positions'[m] = positions[m]
      BY <3>1, <3>2 DEF With, Opened
    <3>4. UNCHANGED <<pc, job, faults>>
      BY <2>3 DEF Buy, procs
    <3> QED
      BY <3>3, <3>4 DEF PendingExitHasHolder, Holding
  <2>4. ASSUME NEW s \in Signals, NEW type \in {"SIGNAL_REJECTED", "SKIPPED_BY_RPC_ERROR"},
               LogSkip(s, type)
        PROVE  PendingExitHasHolder'
    <3>1. UNCHANGED <<positions, pc, job, faults>>
      BY <2>4 DEF LogSkip, procs
    <3> QED
      BY <3>1 DEF PendingExitHasHolder, Holding, Opened
  <2>5. ASSUME NEW p \in Procs,
               \/ ProcStep(p)
               \/ \E m \in Mints : StartManualClose(p, m)
               \/ LockTimesOut(p)
               \/ Crash(p)
        PROVE  PendingExitHasHolder'
    <3>1. ~ LockTimesOut(p) /\ ~ Crash(p)
      BY DEF LockTimesOut, Crash, Fault, TypeOK
    <3>2. faults' = faults /\ faults = 0
      BY <2>5, <3>1 DEF ProcStep, Poll, Evaluate, QuoteOk, RequoteOk, RecordFailure,
         RequoteFails, Claim, ClaimRefused, Sell, SellRefused, Release, CloseExperiment,
         StartManualClose
    <3>3. \A q \in Procs \ {p} : pc'[q] = pc[q] /\ job'[q] = job[q]
      BY <2>5, <3>1 DEF ProcStep, Poll, Evaluate, QuoteOk, RequoteOk, RecordFailure,
         RequoteFails, Claim, ClaimRefused, Sell, SellRefused, Release, CloseExperiment,
         StartManualClose, Abandon, Finish, GoTo, TypeOK, ProcTypeOK
    <3>4. CASE \/ Poll(p) \/ (\E m \in Mints : Evaluate(p, m) \/ StartManualClose(p, m))
               \/ ClaimRefused(p) \/ CloseExperiment(p)
      <4>1. /\ positions' = positions
            /\ pc[p] \notin {"requoting", "selling", "releasing"}
        BY <3>4 DEF Poll, Evaluate, StartManualClose, ClaimRefused, CloseExperiment, ledger
      <4> QED
        BY <3>2, <3>3, <4>1, HolderWithoutSale
    <3>5. CASE \/ \E price \in Prices : RequoteOk(p, price)
               \/ RequoteFails(p) \/ SellRefused(p)
      <4>1. positions' = positions
        BY <3>5 DEF RequoteOk, RequoteFails, SellRefused, Abandon, ledger
      <4>2. \/ ~ HasClaim(p)
            \/ /\ pc'[p] \in {"requoting", "selling", "releasing"}
               /\ job'[p].mint = job[p].mint /\ job'[p].view = job[p].view
        <5>1. CASE SellRefused(p)
          BY <5>1 DEF SellRefused
        <5>2. ASSUME NEW price \in Prices, RequoteOk(p, price)
              PROVE  /\ pc'[p] \in {"requoting", "selling", "releasing"}
                     /\ job'[p].mint = job[p].mint /\ job'[p].view = job[p].view
          <6>1. job[p] \in Job
            BY <5>2, JobType DEF RequoteOk
          <6> QED
            BY <5>2, <6>1 DEF RequoteOk, GoTo, TypeOK, ProcTypeOK, Job
        <5>3. ASSUME RequoteFails(p)
              PROVE  /\ pc'[p] \in {"requoting", "selling", "releasing"}
                     /\ job'[p].mint = job[p].mint /\ job'[p].view = job[p].view
          <6>1. job[p] \in Job
            BY <5>3, JobType DEF RequoteFails
          <6> QED
            BY <5>3, <6>1 DEF RequoteFails, Abandon, GoTo, TypeOK, ProcTypeOK, Job
        <5> QED
          BY <3>5, <5>1, <5>2, <5>3
      <4> QED
        BY <3>2, <3>3, <4>1, <4>2, HolderWithoutSale
    <3>6. CASE \/ \E price \in Prices : QuoteOk(p, price)
               \/ \E gap \in BOOLEAN : RecordFailure(p, gap)
      <4>1. pc[p] \notin {"requoting", "selling", "releasing"}
        BY <3>6 DEF QuoteOk, RecordFailure
      <4>2. ASSUME NEW m \in Opened', positions'[m].state = "EXIT_PENDING"
            PROVE  /\ m \in Opened
                   /\ positions[m].state = "EXIT_PENDING"
                   /\ positions'[m].exitId = positions[m].exitId
                   /\ positions'[m].id = positions[m].id
        <5> DEFINE m0 == job[p].mint
        <5>1. PICK f : /\ ChangePosition(p, f)
                       /\ \/ \E value : f = Marked(positions[m0], value)
                          \/ \E gap \in BOOLEAN : f = QuoteFailed(positions[m0], gap)
          BY <3>6 DEF QuoteOk, RecordFailure
        <5> HIDE DEF m0
        <5>2. CASE positions' = positions
          BY <4>2, <5>2 DEF Opened
        <5>3. CASE m0 \in Opened /\ positions' = [positions EXCEPT ![m0] = f]
          <6>1. positions[m0] \in Position
            BY <5>3 DEF TypeOK, LedgerTypeOK
          <6>2. /\ f.state = "EXIT_PENDING" => positions[m0].state = "EXIT_PENDING"
                /\ f.exitId = positions[m0].exitId /\ f.id = positions[m0].id
            BY <5>1, <6>1, PendingKept
          <6> QED
            BY <4>2, <5>3, <6>2 DEF Opened, TypeOK, LedgerTypeOK
        <5> QED
          BY <5>1, <5>2, <5>3 DEF ChangePosition, SamePosition, m0
      <4>3. ASSUME NEW m \in Opened, positions[m].state = "EXIT_PENDING"
            PROVE  positions[m].exitId # p
        BY <3>2, <4>1, <4>3, HolderIsWorking
      <4> QED
        BY <3>2, <3>3, <4>2, <4>3, HolderStep
    <3>7. CASE Claim(p)
      <4>0. PICK m0 : m0 = job[p].mint
        OBVIOUS
      <4>1. /\ pc[p] = "claiming" /\ job[p] \in Job
            /\ m0 \in Opened /\ positions[m0].id = job[p].view.id
        BY <3>7, <4>0, JobType DEF Claim, MayClaim, SamePosition
      <4>2. /\ pc'[p] \in {"requoting", "selling", "releasing"}
            /\ job'[p].mint = m0 /\ job'[p].view = job[p].view
        BY <3>7, <4>0, <4>1 DEF Claim, GoTo, TypeOK, ProcTypeOK, Job
      <4>3. /\ Opened' = Opened
            /\ positions'[m0].exitId = p /\ positions'[m0].id = positions[m0].id
            /\ \A m \in Opened \ {m0} : positions'[m] = positions[m]
        BY <3>7, <4>0, <4>1 DEF Claim, Opened, TypeOK, LedgerTypeOK, Position
      <4>4. Holding(p, m0)'
        BY <4>1, <4>2, <4>3 DEF Holding
      <4>5. \A m \in Opened : positions[m].state = "EXIT_PENDING" => positions[m].exitId # p
        BY <3>2, <4>1, HolderIsWorking
      <4>6. \A m \in Opened' : positions'[m].state = "EXIT_PENDING" =>
              \/ positions'[m].exitId = p /\ Holding(p, m)'
              \/ /\ m \in Opened
                 /\ positions[m].state = "EXIT_PENDING"
                 /\ positions'[m].exitId = positions[m].exitId
                 /\ positions'[m].id = positions[m].id
                 /\ positions[m].exitId # p
        <5> TAKE m \in Opened'
        <5>1. CASE m = m0
          BY <4>3, <4>4, <5>1
        <5>2. CASE m # m0
          BY <4>3, <4>5, <5>2
        <5> QED
          BY <5>1, <5>2
      <4> QED
        BY <3>2, <3>3, <4>6, HolderStep
    <3>8. CASE Sell(p) \/ (Release(p) /\ HasClaim(p))
      <4> DEFINE m0 == job[p].mint
      <4>1. HasClaim(p) /\ m0 \in Opened
        BY <3>8 DEF Sell, HasClaim, SamePosition
      <4>2. /\ Opened' \subseteq Opened
            /\ \A m \in Opened' \ {m0} : positions'[m] = positions[m]
            /\ m0 \in Opened' => positions'[m0].state # "EXIT_PENDING"
        <5>1. positions[m0] \in Position
          BY <4>1 DEF TypeOK, LedgerTypeOK
        <5>2. CASE positions' = Without(positions, m0)
          BY <5>2 DEF Without, Opened
        <5>3. ASSUME NEW f, f.state # "EXIT_PENDING",
                     positions' = [positions EXCEPT ![m0] = f]
              PROVE  /\ Opened' \subseteq Opened
                     /\ \A m \in Opened' \ {m0} : positions'[m] = positions[m]
                     /\ m0 \in Opened' => positions'[m0].state # "EXIT_PENDING"
          BY <4>1, <5>3 DEF Opened, TypeOK, LedgerTypeOK
        <5>4. AfterSale(positions[m0], job[p]).state # "EXIT_PENDING"
          BY <5>1 DEF AfterSale, Position
        <5>5. CASE Sell(p)
          BY <5>2, <5>3, <5>4, <5>5 DEF Sell
        <5>6. CASE Release(p) /\ HasClaim(p)
          <6> DEFINE f == [positions[m0] EXCEPT !.exitId = NoExit,
                             !.state = IF job[p].degraded THEN "DEGRADED" ELSE "NORMAL"]
          <6>1. f.state # "EXIT_PENDING"
            BY <5>1 DEF Position
          <6>2. positions' = [positions EXCEPT ![m0] = f]
            BY <5>6 DEF Release
          <6> HIDE DEF f
          <6> QED
            BY <5>3, <6>1, <6>2
        <5> QED
          BY <3>8, <5>5, <5>6
      <4>3. \A m \in Opened \ {m0} :
               positions[m].state = "EXIT_PENDING" => positions[m].exitId # p
        BY <3>2, HolderIsWorking
      <4> HIDE DEF m0
      <4> QED
        BY <3>2, <3>3, <4>2, <4>3, HolderStep
    <3>9. CASE Release(p) /\ ~ HasClaim(p)
      <4>1. positions' = positions
        BY <3>9 DEF Release
      <4> QED
        BY <3>2, <3>3, <3>9, <4>1, HolderWithoutSale
    <3> QED
      BY <2>5, <3>1, <3>4, <3>5, <3>6, <3>7, <3>8, <3>9 DEF ProcStep
  <2> QED
    BY <2>3, <2>4, <2>5 DEF Next
<1> QED
  BY <1>1, <1>2, TypeCorrect, PTL DEF Spec

-----------------------------------------------------------------------------
(* A stop loss sells at a loss                                               *)

\* What is true of a position v of token m that was read some time ago: while
\* the position is still there it has the same signal, it has only shrunk, and
\* if it has not shrunk its cost is the same.
ViewOK(m, v) ==
    /\ v.id < nextSeq
    /\ SamePosition(m, v.id) =>
          /\ positions[m].signal = v.signal
          /\ positions[m].amount <= v.amount
          /\ positions[m].amount = v.amount => positions[m].cost = v.cost

\* The exit of a process that decided to stop at a loss: the value is beyond
\* the stop of the position it read, and once it sells it sells what it read.
BeyondStop(j) == j.value * 100 <= StopPercent(j.view.signal) * j.view.cost
StopExitOK(p) ==
    /\ pc[p] = "requoting" => ~ SellsAtDetection(job[p])
    /\ pc[p] \in {"claiming", "selling"} /\ job[p].reason = StopLoss =>
          BeyondStop(job[p])
    /\ pc[p] = "selling" /\ job[p].reason = StopLoss =>
          /\ job[p].amount = job[p].view.amount
          /\ HasClaim(p) => positions[job[p].mint].amount = job[p].amount

\* The inductive invariant behind StopLossSoldAtLoss.
StopLossInv ==
    /\ \A m \in Opened : positions[m].id < nextSeq
    /\ \A p \in Procs :
          /\ \A m \in DOMAIN todo[p] : ViewOK(m, todo[p][m])
          /\ pc[p] # "idle" => ViewOK(job[p].mint, job[p].view) /\ StopExitOK(p)
    /\ StopLossSoldAtLoss

\* A sale of everything releases the whole cost, and a sale of nothing none.
LEMMA SaleOfAll ==
    ASSUME NEW pos \in Position, NEW j \in Job
    PROVE  /\ j.amount = pos.amount => Pnl(pos, j) = j.value - pos.cost
           /\ AfterSale(pos, j).amount <= pos.amount
           /\ AfterSale(pos, j).amount = pos.amount => AfterSale(pos, j).cost = pos.cost
           /\ AfterSale(pos, j).id = pos.id
           /\ AfterSale(pos, j).signal = pos.signal
           /\ AfterSale(pos, j).exitId = NoExit
<1>1. /\ pos.amount \in Nat \ {0} /\ pos.cost \in Nat \ {0}
      /\ j.amount \in Nat /\ j.value \in Nat
  BY DEF Position, Job
<1>2. Sold(pos, j) \in Nat /\ Sold(pos, j) <= pos.amount
  BY <1>1 DEF Sold, MinOf
<1>3. /\ Sold(pos, j) = pos.amount => Released(pos, j) = pos.cost
      /\ Sold(pos, j) = 0 => Released(pos, j) = 0
  <2>1. Sold(pos, j) = pos.amount => Released(pos, j) = pos.cost
    BY <1>1, <1>2, ShareOfCost DEF Released
  <2>2. Sold(pos, j) = 0 => Released(pos, j) = 0
    BY <1>1 DEF Released
  <2> QED
    BY <2>1, <2>2
<1>4. j.amount = pos.amount => Sold(pos, j) = pos.amount
  BY <1>1 DEF Sold, MinOf
<1>5. /\ AfterSale(pos, j).amount = pos.amount - Sold(pos, j)
      /\ AfterSale(pos, j).cost = pos.cost - Released(pos, j)
      /\ AfterSale(pos, j).id = pos.id
      /\ AfterSale(pos, j).signal = pos.signal
      /\ AfterSale(pos, j).exitId = NoExit
  BY DEF AfterSale, Position
<1> QED
  BY <1>1, <1>2, <1>3, <1>4, <1>5 DEF Pnl

\* What a step of p (of the monitor, if p is NoExit) does to the position of m:
\* it keeps its id and its signal; either it keeps its tokens and cost, and a
\* claim it has afterwards it had before or is p's, or it loses tokens and the
\* claim.
Kept(p, m) ==
    /\ m \in Opened
    /\ positions'[m].id = positions[m].id
    /\ positions'[m].signal = positions[m].signal
    /\ \/ /\ positions'[m].amount = positions[m].amount
          /\ positions'[m].cost = positions[m].cost
          /\ positions'[m].exitId \in {positions[m].exitId, NoExit, p}
       \/ /\ positions'[m].amount < positions[m].amount
          /\ positions'[m].exitId = NoExit
Evolves(p) ==
    /\ nextSeq' >= nextSeq
    /\ \A m \in Opened' :
          \/ positions'[m].id = nextSeq /\ nextSeq' = nextSeq + 1
          \/ Kept(p, m)

\* A step that changes no position at all.
LEMMA SamePositionsEvolve ==
    ASSUME TypeOK, NEW p, positions' = positions, nextSeq' \in Nat, nextSeq' >= nextSeq
    PROVE  Evolves(p)
BY DEF Evolves, Kept, Opened

\* A step that replaces the position of one token.
LEMMA OneReplacedEvolves ==
    ASSUME TypeOK, NEW p, NEW m0 \in Opened, NEW f,
           positions' = [positions EXCEPT ![m0] = f],
           nextSeq' \in Nat, nextSeq' >= nextSeq,
           f.id = positions[m0].id, f.signal = positions[m0].signal,
           \/ /\ f.amount = positions[m0].amount
              /\ f.cost = positions[m0].cost
              /\ f.exitId \in {positions[m0].exitId, NoExit, p}
           \/ f.amount < positions[m0].amount /\ f.exitId = NoExit
    PROVE  Evolves(p)
<1>1. Opened' = Opened
  BY DEF Opened, TypeOK, LedgerTypeOK
<1>2. positions'[m0] = f /\ \A m \in Opened \ {m0} : positions'[m] = positions[m]
  BY DEF Opened, TypeOK, LedgerTypeOK
<1>3. ASSUME NEW m \in Opened' PROVE Kept(p, m)
  <2>1. CASE m = m0
    BY <1>2, <2>1 DEF Kept
  <2>2. CASE m # m0
    BY <1>1, <1>2, <2>2 DEF Kept
  <2> QED
    BY <2>1, <2>2
<1> QED
  BY <1>3 DEF Evolves

\* The monitor's steps.
LEMMA MonitorEvolves ==
    ASSUME TypeOK,
           \/ \E s \in Signals, lot \in Lots : Buy(s, lot)
           \/ \E s \in Signals, type \in {"SIGNAL_REJECTED", "SKIPPED_BY_RPC_ERROR"} :
                 LogSkip(s, type)
    PROVE  Evolves(NoExit)
<1>1. nextSeq \in Nat
  BY DEF TypeOK, LedgerTypeOK
<1>2. ASSUME NEW s \in Signals, NEW lot \in Lots, Buy(s, lot)
      PROVE  Evolves(NoExit)
  <2> DEFINE m0 == SignalMint[s]
             pos == [id |-> nextSeq, signal |-> s, amount |-> lot.amount,
                     cost |-> lot.cost, state |-> "NORMAL", exitId |-> NoExit,
                     tpDone |-> FALSE, peak |-> 0, failures |-> 0]
  <2>1. positions' = With(positions, m0, pos) /\ nextSeq' = nextSeq + 1
    BY <1>2 DEF Buy
  <2>2. pos.id = nextSeq
    OBVIOUS
  <2> HIDE DEF m0, pos
  <2>3. ASSUME NEW m \in Opened'
        PROVE  \/ positions'[m].id = nextSeq
               \/ m \in Opened /\ positions'[m] = positions[m]
    BY <2>1, <2>2 DEF With, Opened
  <2> QED
    BY <1>1, <2>1, <2>3 DEF Evolves, Kept
<1>3. ASSUME NEW s \in Signals, NEW type \in {"SIGNAL_REJECTED", "SKIPPED_BY_RPC_ERROR"},
             LogSkip(s, type)
      PROVE  Evolves(NoExit)
  <2>1. positions' = positions /\ nextSeq' = nextSeq + 1
    BY <1>3 DEF LogSkip
  <2> QED
    BY <1>1, <2>1, SamePositionsEvolve
<1> QED
  BY <1>2, <1>3

\* A step of a process.
ProcessStep(p) ==
    \/ ProcStep(p)
    \/ \E m \in Mints : StartManualClose(p, m)
    \/ LockTimesOut(p)
    \/ Crash(p)

\* Marks and quote failures leave tokens, cost and claim alone.
LEMMA ValueKept ==
    ASSUME NEW pos \in Position, NEW f,
           \/ \E value : f = Marked(pos, value)
           \/ \E gap \in BOOLEAN : f = QuoteFailed(pos, gap)
    PROVE  /\ f.id = pos.id /\ f.signal = pos.signal /\ f.exitId = pos.exitId
           /\ f.amount = pos.amount /\ f.cost = pos.cost
BY DEF Marked, QuoteFailed, Position

\* Every step of a process lets positions evolve.
LEMMA ProcessEvolves ==
    ASSUME TypeOK, NEW p \in Procs, ProcessStep(p)
    PROVE  Evolves(p)
<1>1. nextSeq \in Nat
  BY DEF TypeOK, LedgerTypeOK
<1>2. PICK m0 : m0 = job[p].mint
  OBVIOUS
<1>3. m0 \in Opened => positions[m0] \in Position
  BY DEF TypeOK, LedgerTypeOK
<1>4. CASE positions' = positions /\ nextSeq' = nextSeq
  BY <1>1, <1>4, SamePositionsEvolve
<1>5. CASE \/ \E price \in Prices : QuoteOk(p, price)
           \/ \E gap \in BOOLEAN : RecordFailure(p, gap)
  <2>1. PICK f : /\ ChangePosition(p, f)
                 /\ \/ \E value : f = Marked(positions[m0], value)
                    \/ \E gap \in BOOLEAN : f = QuoteFailed(positions[m0], gap)
    BY <1>2, <1>5 DEF QuoteOk, RecordFailure
  <2>2. nextSeq' = nextSeq
    BY <1>5 DEF QuoteOk, RecordFailure
  <2>3. CASE m0 \in Opened /\ positions' = [positions EXCEPT ![m0] = f]
    <3>1. /\ f.id = positions[m0].id /\ f.signal = positions[m0].signal
          /\ f.exitId = positions[m0].exitId
          /\ f.amount = positions[m0].amount /\ f.cost = positions[m0].cost
      BY <1>3, <2>1, <2>3, ValueKept
    <3>2. nextSeq' \in Nat /\ nextSeq' >= nextSeq
      BY <1>1, <2>2
    <3> QED
      BY <2>3, <3>1, <3>2, OneReplacedEvolves, Zenon
  <2> QED
    BY <1>2, <1>4, <2>1, <2>2, <2>3 DEF ChangePosition, SamePosition
<1>6. CASE Claim(p)
  <2> DEFINE f == [positions[m0] EXCEPT !.state = "EXIT_PENDING", !.exitId = p]
  <2>1. m0 \in Opened /\ nextSeq' = nextSeq /\ positions' = [positions EXCEPT ![m0] = f]
    BY <1>2, <1>6 DEF Claim, MayClaim, SamePosition
  <2>2. /\ f.id = positions[m0].id /\ f.signal = positions[m0].signal /\ f.exitId = p
        /\ f.amount = positions[m0].amount /\ f.cost = positions[m0].cost
    BY <1>3, <2>1 DEF Position
  <2> HIDE DEF f
  <2>3. nextSeq' \in Nat /\ nextSeq' >= nextSeq
    BY <1>1, <2>1
  <2> QED
    BY <2>1, <2>2, <2>3, OneReplacedEvolves, Zenon
<1>7. CASE Release(p) /\ HasClaim(p)
  <2> DEFINE f == [positions[m0] EXCEPT !.exitId = NoExit,
                     !.state = IF job[p].degraded THEN "DEGRADED" ELSE "NORMAL"]
  <2>1. m0 \in Opened /\ nextSeq' = nextSeq /\ positions' = [positions EXCEPT ![m0] = f]
    BY <1>2, <1>7 DEF Release, HasClaim, SamePosition
  <2>2. /\ f.id = positions[m0].id /\ f.signal = positions[m0].signal /\ f.exitId = NoExit
        /\ f.amount = positions[m0].amount /\ f.cost = positions[m0].cost
    BY <1>3, <2>1 DEF Position
  <2> HIDE DEF f
  <2>3. nextSeq' \in Nat /\ nextSeq' >= nextSeq
    BY <1>1, <2>1
  <2> QED
    BY <2>1, <2>2, <2>3, OneReplacedEvolves, Zenon
<1>8. CASE Sell(p)
  <2> DEFINE f == AfterSale(positions[m0], job[p])
  <2>1. m0 \in Opened /\ nextSeq' = nextSeq + 1 /\ job[p] \in Job
    BY <1>2, <1>8, JobType DEF Sell, HasClaim, SamePosition
  <2>2. \/ positions' = [positions EXCEPT ![m0] = f]
        \/ positions' = Without(positions, m0)
    BY <1>2, <1>8 DEF Sell
  <2>3. CASE positions' = [positions EXCEPT ![m0] = f]
    <3>1. /\ f.id = positions[m0].id /\ f.signal = positions[m0].signal
          /\ f.exitId = NoExit /\ f.amount <= positions[m0].amount
          /\ f.amount = positions[m0].amount => f.cost = positions[m0].cost
          /\ f.amount \in Nat /\ positions[m0].amount \in Nat
      BY <1>3, <2>1, SaleOfAll, AfterSaleType DEF Position
    <3> HIDE DEF f
    <3>2. \/ f.amount = positions[m0].amount
          \/ f.amount < positions[m0].amount
      BY <3>1
    <3>3. nextSeq' \in Nat /\ nextSeq' >= nextSeq
      BY <1>1, <2>1
    <3> QED
      BY <2>1, <2>3, <3>1, <3>2, <3>3, OneReplacedEvolves, Zenon
  <2>4. CASE positions' = Without(positions, m0)
    <3>1. \A m \in Opened' : m \in Opened /\ positions'[m] = positions[m]
      BY <2>4 DEF Without, Opened
    <3> QED
      BY <1>1, <2>1, <3>1 DEF Evolves, Kept
  <2> QED
    BY <2>2, <2>3, <2>4
<1> QED
  BY <1>4, <1>5, <1>6, <1>7, <1>8 DEF ProcessStep, ProcStep, Poll, Evaluate, RequoteOk,
     RequoteFails, ClaimRefused, SellRefused, Release, CloseExperiment, StartManualClose,
     LockTimesOut, Crash, Abandon, ledger

\* What was read stays true of what it was read from.
LEMMA ViewKept ==
    ASSUME TypeOK, TypeOK', NEW p, Evolves(p), NEW m, NEW v, v.id \in Nat, v.amount \in Nat,
           ViewOK(m, v)
    PROVE  ViewOK(m, v)'
<1>1. nextSeq \in Nat /\ nextSeq' \in Nat
  BY DEF TypeOK, LedgerTypeOK
<1>2. v.id < nextSeq'
  BY <1>1 DEF ViewOK, Evolves
<1>3. ASSUME SamePosition(m, v.id)'
      PROVE  /\ positions'[m].signal = v.signal
             /\ positions'[m].amount <= v.amount
             /\ positions'[m].amount = v.amount => positions'[m].cost = v.cost
  <2>1. m \in Opened' /\ positions'[m].id = v.id
    BY <1>3 DEF SamePosition
  <2>2. positions'[m].id # nextSeq
    BY <1>1, <2>1 DEF ViewOK
  <2>3. Kept(p, m)
    BY <2>1, <2>2 DEF Evolves
  <2>4. SamePosition(m, v.id)
    BY <2>1, <2>3 DEF Kept, SamePosition
  <2>5. positions[m].amount \in Nat /\ positions'[m].amount \in Nat
    BY <2>1, <2>4 DEF SamePosition, TypeOK, LedgerTypeOK, Position
  <2>6. /\ positions[m].signal = v.signal
        /\ positions[m].amount <= v.amount
        /\ positions[m].amount = v.amount => positions[m].cost = v.cost
    BY <2>4 DEF ViewOK
  <2> QED
    BY <2>3, <2>5, <2>6 DEF Kept
<1> QED
  BY <1>2, <1>3 DEF ViewOK

\* The exit of a process that does not move is not disturbed.
LEMMA ExitKept ==
    ASSUME TypeOK, TypeOK', NEW p, Evolves(p), NEW q \in Procs, q # p,
           pc[q] # "idle", pc'[q] = pc[q], job'[q] = job[q],
           ViewOK(job[q].mint, job[q].view), StopExitOK(q)
    PROVE  StopExitOK(q)'
<1>1. CASE HasClaim(q)'
  <2> DEFINE m == job[q].mint
  <2>1. job[q] \in Job /\ nextSeq \in Nat
    BY JobType DEF TypeOK, LedgerTypeOK
  <2>2. /\ m \in Opened' /\ positions'[m].id = job[q].view.id
        /\ positions'[m].exitId = q
    BY <1>1 DEF HasClaim, SamePosition
  <2>3. positions'[m].id < nextSeq
    BY <2>2 DEF ViewOK
  <2>4. Kept(p, m)
    BY <2>1, <2>2, <2>3 DEF Evolves
  <2>5. q # NoExit
    BY ConstantAssumption DEF Procs
  <2>6. HasClaim(q) /\ positions'[m].amount = positions[m].amount
    BY <2>2, <2>4, <2>5 DEF Kept, HasClaim, SamePosition
  <2> QED
    BY <2>6 DEF StopExitOK, BeyondStop, SellsAtDetection
<1>2. CASE ~ HasClaim(q)'
  BY <1>2 DEF StopExitOK, BeyondStop, SellsAtDetection
<1> QED
  BY <1>1, <1>2

\* The exit of the process that moves is set up correctly.
LEMMA OwnExit ==
    ASSUME TypeOK, TypeOK', NEW p \in Procs, ProcessStep(p),
           pc[p] # "idle" => StopExitOK(p), pc'[p] # "idle"
    PROVE  StopExitOK(p)'
<1>1. DOMAIN pc = Procs /\ DOMAIN job = Procs
  BY DEF TypeOK, ProcTypeOK
<1>2. CASE pc'[p] \notin {"claiming", "requoting", "selling"}
  BY <1>2 DEF StopExitOK
<1>3. ASSUME NEW m \in Mints, StartManualClose(p, m)
      PROVE  StopExitOK(p)'
  <2>1. pc'[p] = "claiming" /\ job'[p].reason = ManualClose
    BY <1>1, <1>3 DEF StartManualClose, GoTo
  <2> QED
    BY <2>1 DEF StopExitOK, ManualClose, StopLoss
<1>4. ASSUME NEW price \in Prices, QuoteOk(p, price)
      PROVE  StopExitOK(p)'
  <2> DEFINE value == price * job[p].view.amount
  <2>1. job[p] \in Job /\ pc'[p] = "claiming"
    BY <1>1, <1>4, JobType DEF QuoteOk, GoTo, Finish
  <2>2. CASE job'[p].reason # StopLoss
    BY <2>1, <2>2 DEF StopExitOK
  <2>3. CASE job'[p].reason = StopLoss
    <3>1. /\ StopTriggered(job[p].view, value)
          /\ ~ job[p].view.tpDone
          /\ job'[p].value = value /\ job'[p].view = job[p].view
      BY <1>1, <1>4, <2>1, <2>3
         DEF QuoteOk, GoTo, Finish, Job, StopLoss, TrailingStop, TakeProfit
    <3>2. BeyondStop(job[p])'
      BY <3>1 DEF StopTriggered, BeyondStop, StopPercent
    <3> QED
      BY <2>1, <3>2 DEF StopExitOK
  <2> QED
    BY <2>2, <2>3
<1>5. CASE Claim(p)
  <2> DEFINE m == job[p].mint
             a == ExitAmount(job[p].reason, positions[m].amount)
  <2>1. /\ job[p] \in Job /\ m \in Opened /\ pc[p] = "claiming"
        /\ positions[m] \in Position
    BY <1>5, JobType DEF Claim, MayClaim, SamePosition, TypeOK, LedgerTypeOK
  <2>2. /\ job'[p].amount = a /\ job'[p].mint = m /\ job'[p].view = job[p].view
        /\ job'[p].reason = job[p].reason /\ job'[p].value = job[p].value
    BY <1>1, <1>5, <2>1 DEF Claim, Job
  <2>3. positions'[m].amount = positions[m].amount
    BY <1>5, <2>1 DEF Claim, Opened, TypeOK, LedgerTypeOK, Position
  <2>4. /\ pc'[p] = "requoting" => ~ SellsAtDetection(job[p])
        /\ pc'[p] = "selling" => SellsAtDetection(job[p]) /\ Usable(job[p], a)
        /\ pc'[p] # "claiming"
    BY <1>1, <1>5 DEF Claim, GoTo
  <2>5. ASSUME job[p].reason = StopLoss, pc'[p] = "selling"
        PROVE  a = job[p].view.amount /\ a = positions[m].amount /\ BeyondStop(job[p])
    BY <2>1, <2>4, <2>5 DEF Usable, ExitAmount, StopLoss, TakeProfit, StopExitOK
  <2> HIDE DEF a
  <2> QED
    BY <2>2, <2>3, <2>4, <2>5 DEF StopExitOK, SellsAtDetection, BeyondStop, HasClaim
<1>6. ASSUME NEW price \in Prices, RequoteOk(p, price)
      PROVE  StopExitOK(p)'
  <2>1. /\ job[p] \in Job /\ pc'[p] = "selling" /\ pc[p] = "requoting"
        /\ job'[p].reason = job[p].reason
    BY <1>1, <1>6, JobType DEF RequoteOk, GoTo, Job
  <2> QED
    BY <2>1 DEF StopExitOK, SellsAtDetection
<1>7. ASSUME pc'[p] \in {"claiming", "requoting", "selling"}
      PROVE  \/ \E m \in Mints : StartManualClose(p, m)
             \/ \E price \in Prices : QuoteOk(p, price) \/ RequoteOk(p, price)
             \/ Claim(p)
  BY <1>1, <1>7 DEF ProcessStep, ProcStep, Poll, Evaluate, RecordFailure, RequoteFails,
     ClaimRefused, Sell, SellRefused, Release, CloseExperiment, LockTimesOut, Crash,
     Abandon, Finish, GoTo
<1> QED
  BY <1>2, <1>3, <1>4, <1>5, <1>6, <1>7

\* Appending to a log and trimming it add no event but the appended one.
LEMMA EventsOfLog ==
    ASSUME NEW s \in Seq(Event), NEW e \in Event, NEW n \in Nat \ {0}
    PROVE  /\ \A i \in 1 .. Len(Append(s, e)) :
                 Append(s, e)[i] = e \/ \E j \in 1 .. Len(s) : Append(s, e)[i] = s[j]
           /\ \A i \in 1 .. Len(LastOf(s, n)) :
                 \E j \in 1 .. Len(s) : LastOf(s, n)[i] = s[j]
<1>1. ASSUME NEW i \in 1 .. Len(Append(s, e))
      PROVE  Append(s, e)[i] = e \/ \E j \in 1 .. Len(s) : Append(s, e)[i] = s[j]
  BY <1>1
<1>2. ASSUME NEW i \in 1 .. Len(LastOf(s, n))
      PROVE  \E j \in 1 .. Len(s) : LastOf(s, n)[i] = s[j]
  <2>1. CASE Len(s) <= n
    BY <2>1, <1>2 DEF LastOf
  <2>2. CASE ~ (Len(s) <= n)
    <3> DEFINE k == Len(s) - n + 1
    <3>1. /\ Len(s) \in Nat /\ k \in 1 .. Len(s)
          /\ \A x \in k .. Len(s) : s[x] \in Event
      BY <2>2, LenProperties, ElementOfSeq
    <3>2. /\ LastOf(s, n) = SubSeq(s, k, Len(s))
          /\ Len(LastOf(s, n)) = n
          /\ LastOf(s, n)[i] = s[k + i - 1]
      BY <2>2, <3>1, <1>2, SubSeqProperties DEF LastOf
    <3>3. k + i - 1 \in 1 .. Len(s)
      BY <3>1, <3>2, <1>2
    <3> QED
      BY <3>2, <3>3
  <2> QED
    BY <2>1, <2>2
<1> QED
  BY <1>1, <1>2

\* The sales of a log: a sale by p that is a stop loss, if the state agrees with
\* what p read, is at a loss.
LEMMA SaleAtLoss ==
    ASSUME TypeOK, NEW p \in Procs, Sell(p), StopExitOK(p), ViewOK(job[p].mint, job[p].view),
           StopLossSoldAtLoss
    PROVE  StopLossSoldAtLoss'
<1> DEFINE j   == job[p]
           m   == j.mint
           pos == positions[m]
           e   == [type |-> "SELL", seq |-> nextSeq, mint |-> m, id |-> pos.id,
                   signal |-> pos.signal, reason |-> j.reason, sold |-> Sold(pos, j),
                   proceeds |-> j.value, pnl |-> Pnl(pos, j)]
<1>1. /\ j \in Job /\ pos \in Position /\ HasClaim(p) /\ pc[p] = "selling"
      /\ SamePosition(m, j.view.id) /\ m \in Mints
  BY JobType DEF Sell, HasClaim, SamePosition, TypeOK, LedgerTypeOK
<1>2. events' = Append(events, e)
  BY DEF Sell
<1>3. e \in Event
  BY <1>1, AfterSaleType DEF Event, SellEvent, Job, Position, TypeOK, LedgerTypeOK
<1>4. ASSUME j.reason = StopLoss
      PROVE  j.value * 100 <= StopPercent(pos.signal) * (j.value - Pnl(pos, j))
  <2>1. /\ BeyondStop(j) /\ pos.amount = j.amount /\ j.amount = j.view.amount
        /\ pos.signal = j.view.signal /\ pos.cost = j.view.cost
    BY <1>1, <1>4 DEF StopExitOK, ViewOK
  <2>2. Pnl(pos, j) = j.value - pos.cost
    BY <1>1, <2>1, SaleOfAll
  <2>3. j.value - Pnl(pos, j) = j.view.cost
    BY <1>1, <2>1, <2>2 DEF Job, Position
  <2> QED
    BY <2>1, <2>3 DEF BeyondStop
<1>5. e.reason = StopLoss =>
         e.proceeds * 100 <= StopPercent(e.signal) * (e.proceeds - e.pnl)
  BY <1>4
<1>6. ASSUME NEW f \in EventSet' PROVE f = e \/ f \in EventSet
  <2> HIDE DEF e
  <2>1. PICK i \in 1 .. Len(Append(events, e)) : f = Append(events, e)[i]
    BY <1>2, <1>6 DEF EventSet
  <2>2. f = e \/ \E k \in 1 .. Len(events) : f = events[k]
    BY <1>3, <2>1 DEF TypeOK, LedgerTypeOK
  <2> QED
    BY <2>2 DEF EventSet
<1> HIDE DEF e
<1> QED
  BY <1>5, <1>6 DEF StopLossSoldAtLoss

\* Every other step adds no sale to the log.
LEMMA NoSaleKept ==
    ASSUME TypeOK, Next, ~ \E p \in Procs : Sell(p), StopLossSoldAtLoss
    PROVE  StopLossSoldAtLoss'
<1>1. events \in Seq(Event) /\ nextSeq \in Nat
  BY DEF TypeOK, LedgerTypeOK
<1>2. ASSUME events' = events PROVE StopLossSoldAtLoss'
  BY <1>2 DEF StopLossSoldAtLoss, EventSet
<1>3. ASSUME NEW e \in Event, ~ IsSell(e),
             \/ events' = Append(events, e)
             \/ events' = LastOf(Append(events, e), MaxEvents)
      PROVE  StopLossSoldAtLoss'
  <2>1. Append(events, e) \in Seq(Event) /\ MaxEvents \in Nat \ {0}
    BY <1>1, ConstantAssumption
  <2>2. ASSUME NEW f \in EventSet' PROVE f = e \/ f \in EventSet
    <3>1. \E i \in 1 .. Len(Append(events, e)) : f = Append(events, e)[i]
      <4>1. CASE events' = Append(events, e)
        BY <2>2, <4>1 DEF EventSet
      <4>2. CASE events' = LastOf(Append(events, e), MaxEvents)
        <5>1. PICK i \in 1 .. Len(LastOf(Append(events, e), MaxEvents)) :
                 f = LastOf(Append(events, e), MaxEvents)[i]
          BY <2>2, <4>2 DEF EventSet
        <5> QED
          BY <2>1, <5>1, EventsOfLog
      <4> QED
        BY <1>3, <4>1, <4>2
    <3>2. f = e \/ \E k \in 1 .. Len(events) : f = events[k]
      BY <1>1, <3>1
    <3> QED
      BY <3>2 DEF EventSet
  <2> QED
    BY <1>3, <2>2 DEF StopLossSoldAtLoss
<1>4. ASSUME NEW s \in Signals, NEW lot \in Lots, Buy(s, lot)
      PROVE  StopLossSoldAtLoss'
  <2> DEFINE e == [type |-> "BUY", seq |-> nextSeq, mint |-> SignalMint[s], signal |-> s,
                   cost |-> lot.cost, amount |-> lot.amount]
  <2>1. e \in Event /\ ~ IsSell(e)
    BY <1>1, ConstantAssumption DEF Event, BuyEvent, IsSell
  <2>2. events' = Append(events, e)
    BY <1>4 DEF Buy
  <2> HIDE DEF e
  <2> QED
    BY <1>3, <2>1, <2>2
<1>5. ASSUME NEW s \in Signals, NEW type \in {"SIGNAL_REJECTED", "SKIPPED_BY_RPC_ERROR"},
             LogSkip(s, type)
      PROVE  StopLossSoldAtLoss'
  <2> DEFINE e == [type |-> type, seq |-> nextSeq, mint |-> SignalMint[s], signal |-> s]
  <2>1. e \in Event /\ ~ IsSell(e)
    BY <1>1, ConstantAssumption DEF Event, SkipEvent, IsSell
  <2>2. events' = LastOf(Append(events, e), MaxEvents)
    BY <1>5 DEF LogSkip
  <2> HIDE DEF e
  <2> QED
    BY <1>3, <2>1, <2>2
<1>6. ASSUME NEW p \in Procs, ProcessStep(p) PROVE events' = events
  BY <1>6 DEF ProcessStep, ProcStep, Poll, Evaluate, QuoteOk, RequoteOk, RecordFailure,
     RequoteFails, Claim, ClaimRefused, SellRefused, Release, CloseExperiment,
     StartManualClose, LockTimesOut, Crash, Abandon, ledger
<1> QED
  BY <1>2, <1>4, <1>5, <1>6 DEF Next, ProcessStep

\* A position's view of itself is right.
LEMMA FreshView ==
    ASSUME TypeOK, NEW m \in Opened, positions[m].id < nextSeq
    PROVE  ViewOK(m, positions[m])
<1>1. positions[m].amount \in Nat
  BY DEF TypeOK, LedgerTypeOK, Position
<1> QED
  BY <1>1 DEF ViewOK

\* A step of p moves no other process.
LEMMA OthersDoNotMove ==
    ASSUME TypeOK, NEW p \in Procs, ProcessStep(p)
    PROVE  \A q \in Procs \ {p} : pc'[q] = pc[q] /\ job'[q] = job[q] /\ todo'[q] = todo[q]
<1>0. DOMAIN pc = Procs /\ DOMAIN job = Procs /\ DOMAIN todo = Procs
  BY DEF TypeOK, ProcTypeOK
<1>1. pc' = pc \/ \E l : pc' = [pc EXCEPT ![p] = l]
  BY DEF ProcessStep, ProcStep, Poll, Evaluate, QuoteOk, RequoteOk, RecordFailure,
     RequoteFails, Claim, ClaimRefused, Sell, SellRefused, Release, CloseExperiment,
     StartManualClose, LockTimesOut, Crash, Abandon, Finish, GoTo
<1>2. job' = job \/ \E j : job' = [job EXCEPT ![p] = j]
  BY DEF ProcessStep, ProcStep, Poll, Evaluate, QuoteOk, RequoteOk, RecordFailure,
     RequoteFails, Claim, ClaimRefused, Sell, SellRefused, Release, CloseExperiment,
     StartManualClose, LockTimesOut, Crash, Abandon, Finish
<1>3. todo' = todo \/ \E t : todo' = [todo EXCEPT ![p] = t]
  BY DEF ProcessStep, ProcStep, Poll, Evaluate, QuoteOk, RequoteOk, RecordFailure,
     RequoteFails, Claim, ClaimRefused, Sell, SellRefused, Release, CloseExperiment,
     StartManualClose, LockTimesOut, Crash, Abandon
<1>4. ASSUME NEW q \in Procs \ {p}
      PROVE  pc'[q] = pc[q] /\ job'[q] = job[q] /\ todo'[q] = todo[q]
  BY <1>0, <1>1, <1>2, <1>3
<1> QED
  BY <1>4

\* Only a new round, an evaluation or a crash changes what is left of the round.
LEMMA TodoStays ==
    ASSUME NEW p \in Procs, ProcessStep(p)
    PROVE  Poll(p) \/ Crash(p) \/ (\E x \in Mints : Evaluate(p, x)) \/ todo' = todo
<1>1. CASE ProcStep(p)
  <2>1. ASSUME NEW price \in Prices, QuoteOk(p, price) \/ RequoteOk(p, price)
        PROVE  todo' = todo
    BY <2>1 DEF QuoteOk, RequoteOk
  <2>2. ASSUME NEW gap \in BOOLEAN, RecordFailure(p, gap) PROVE todo' = todo
    BY <2>2 DEF RecordFailure
  <2>3. RequoteFails(p) \/ Claim(p) \/ ClaimRefused(p) => todo' = todo
    BY DEF RequoteFails, Abandon, Claim, ClaimRefused
  <2>4. Sell(p) \/ SellRefused(p) \/ Release(p) \/ CloseExperiment(p) => todo' = todo
    BY DEF Sell, SellRefused, Abandon, Release, CloseExperiment
  <2> QED
    BY <1>1, <2>1, <2>2, <2>3, <2>4 DEF ProcStep
<1>2. ASSUME NEW m \in Mints, StartManualClose(p, m) PROVE todo' = todo
  BY <1>2 DEF StartManualClose
<1>3. LockTimesOut(p) => todo' = todo
  BY DEF LockTimesOut, Abandon
<1> QED
  BY <1>1, <1>2, <1>3 DEF ProcessStep

\* A process that is neither at the start of an evaluation nor of a manual close
\* works on the position it worked on.
LEMMA JobGoesOn ==
    ASSUME TypeOK, NEW p \in Procs, ProcessStep(p), pc'[p] # "idle",
           ~ \E x \in Mints : Evaluate(p, x) \/ StartManualClose(p, x)
    PROVE  /\ pc[p] # "idle" /\ job[p] \in Job
           /\ job'[p].mint = job[p].mint /\ job'[p].view = job[p].view
<1>0. DOMAIN pc = Procs /\ DOMAIN job = Procs
  BY DEF TypeOK, ProcTypeOK
<1>1. pc[p] # "idle"
  BY <1>0 DEF ProcessStep, ProcStep, Poll, QuoteOk, RequoteOk,
     RecordFailure, RequoteFails, Claim, ClaimRefused, Sell, SellRefused, Release,
     CloseExperiment, LockTimesOut, Crash, Abandon, Finish, GoTo
<1>2. job[p] \in Job
  BY <1>1, JobType
<1>3. \/ job' = job
      \/ Abandon(p) \/ Claim(p)
      \/ \E price \in Prices : QuoteOk(p, price) \/ RequoteOk(p, price)
  BY <1>0, <1>1 DEF ProcessStep, ProcStep, Poll, RecordFailure,
     RequoteFails, ClaimRefused, Sell, SellRefused, Release, CloseExperiment,
     LockTimesOut, Crash, Finish, GoTo
<1>4. CASE Abandon(p) \/ Claim(p)
  BY <1>0, <1>1, <1>2, <1>4 DEF Abandon, Claim, Job
<1>5. ASSUME NEW price \in Prices, RequoteOk(p, price)
      PROVE  job'[p].mint = job[p].mint /\ job'[p].view = job[p].view
  BY <1>0, <1>2, <1>5 DEF RequoteOk, Job
<1>6. ASSUME NEW price \in Prices, QuoteOk(p, price)
      PROVE  job'[p].mint = job[p].mint /\ job'[p].view = job[p].view
  BY <1>0, <1>2, <1>6 DEF QuoteOk, Finish, GoTo, Job
<1> QED
  BY <1>1, <1>2, <1>3, <1>4, <1>5, <1>6

\* The views of the process that moves: they are old ones that have aged, or
\* copies of positions.
LEMMA OwnViews ==
    ASSUME TypeOK, TypeOK', NEW p \in Procs, ProcessStep(p),
           \A m \in Opened : positions[m].id < nextSeq,
           \A m \in DOMAIN todo[p] : ViewOK(m, todo[p][m]),
           pc[p] # "idle" => ViewOK(job[p].mint, job[p].view)
    PROVE  /\ \A m \in DOMAIN todo'[p] : ViewOK(m, todo[p][m])'
           /\ pc'[p] # "idle" => ViewOK(job[p].mint, job[p].view)'
<1>1. Evolves(p)
  BY ProcessEvolves
<1>2. /\ DOMAIN pc = Procs /\ DOMAIN job = Procs /\ DOMAIN todo = Procs
      /\ \A m \in DOMAIN todo[p] : todo[p][m] \in Position
  BY DEF TypeOK, ProcTypeOK
<1>3. ASSUME NEW m, NEW v \in Position, ViewOK(m, v) PROVE ViewOK(m, v)'
  BY <1>1, <1>3, ViewKept DEF Position
<1>4. \A m \in DOMAIN todo[p] : ViewOK(m, todo[p][m])
  OBVIOUS
<1>5. ASSUME NEW m \in DOMAIN todo'[p] PROVE ViewOK(m, todo[p][m])'
  <2>1. \/ m \in Opened /\ todo'[p][m] = positions[m]
        \/ m \in DOMAIN todo[p] /\ todo'[p][m] = todo[p][m]
    <3>1. CASE Poll(p)
      BY <1>2, <1>5, <3>1 DEF Poll, Opened
    <3>2. ASSUME NEW x \in Mints, Evaluate(p, x)
          PROVE  m \in DOMAIN todo[p] /\ todo'[p][m] = todo[p][m]
      BY <1>2, <1>5, <3>2 DEF Evaluate, Without
    <3>3. CASE Crash(p)
      BY <1>2, <1>5, <3>3 DEF Crash
    <3>4. CASE todo' = todo
      BY <1>5, <3>4
    <3> QED
      BY <3>1, <3>2, <3>3, <3>4, TodoStays
  <2>2. PICK v : v = todo'[p][m]
    OBVIOUS
  <2>3. v \in Position /\ ViewOK(m, v)
    BY <1>2, <1>4, <2>1, <2>2, FreshView DEF TypeOK, LedgerTypeOK
  <2>4. ViewOK(m, v)'
    BY <1>3, <2>3
  <2> QED
    BY <2>2, <2>4 DEF ViewOK
<1>6. ASSUME pc'[p] # "idle" PROVE ViewOK(job[p].mint, job[p].view)'
  <2>1. PICK m, v : m = job'[p].mint /\ v = job'[p].view
    OBVIOUS
  <2>2. v \in Position /\ ViewOK(m, v)
    <3>1. ASSUME NEW x \in Mints, Evaluate(p, x)
          PROVE  v \in Position /\ ViewOK(m, v)
      <4>1. pc[p] = "idle" /\ x \in DOMAIN todo[p] /\ m = x /\ v = todo[p][x]
        BY <1>2, <1>6, <2>1, <3>1 DEF Evaluate
      <4> QED
        BY <1>2, <1>4, <4>1
    <3>2. ASSUME NEW x \in Mints, StartManualClose(p, x)
          PROVE  v \in Position /\ ViewOK(m, v)
      <4>1. x \in Opened /\ m = x /\ v = positions[x]
        BY <1>2, <2>1, <3>2 DEF StartManualClose
      <4> QED
        BY <4>1, FreshView DEF TypeOK, LedgerTypeOK
    <3>3. CASE /\ pc[p] # "idle"
               /\ job'[p].mint = job[p].mint /\ job'[p].view = job[p].view
      BY <2>1, <3>3, JobType DEF Job
    <3>4. CASE ~ \E x \in Mints : Evaluate(p, x) \/ StartManualClose(p, x)
      BY <1>6, <3>3, <3>4, JobGoesOn
    <3> QED
      BY <3>1, <3>2, <3>4
  <2>3. ViewOK(m, v)'
    BY <1>3, <2>2
  <2> QED
    BY <2>1, <2>3 DEF ViewOK
<1> QED
  BY <1>5, <1>6

\* Every stop loss in the log was sold beyond its stop, although it is sold on
\* a quote taken before the claim and other processes change positions between
\* the two.
THEOREM StopLossesAtLoss == Spec => []StopLossSoldAtLoss
<1>1. Init => StopLossInv
  BY DEF Init, StopLossInv, StopLossSoldAtLoss, EventSet, Opened
<1>2. TypeOK /\ TypeOK' /\ StopLossInv /\ [Next]_vars => StopLossInv'
  <2> SUFFICES ASSUME TypeOK, TypeOK', StopLossInv, [Next]_vars PROVE StopLossInv'
    OBVIOUS
  <2>1. CASE UNCHANGED vars
    BY <2>1 DEF vars, ledger, procs, StopLossInv, StopLossSoldAtLoss, EventSet, Opened, ViewOK,
       SamePosition, StopExitOK, HasClaim
  <2>2. ASSUME NEW p, Evolves(p)
        PROVE  \A m \in Opened' : positions'[m].id < nextSeq'
    <3>1. nextSeq \in Nat /\ nextSeq' \in Nat
      BY DEF TypeOK, LedgerTypeOK
    <3>2. ASSUME NEW m \in Opened' PROVE positions'[m].id < nextSeq'
      <4>1. positions'[m].id \in Nat
        BY DEF TypeOK, LedgerTypeOK, Position
      <4>2. CASE Kept(p, m)
        <5>1. positions'[m].id < nextSeq
          BY <4>2 DEF Kept, StopLossInv
        <5> QED
          BY <2>2, <3>1, <4>1, <5>1 DEF Evolves
      <4>3. CASE positions'[m].id = nextSeq /\ nextSeq' = nextSeq + 1
        BY <3>1, <4>3
      <4> QED
        BY <2>2, <4>2, <4>3 DEF Evolves
    <3> QED
      BY <3>2
  <2>3. ASSUME NEW p, Evolves(p), NEW q \in Procs, q # p,
               pc'[q] = pc[q], job'[q] = job[q], todo'[q] = todo[q]
        PROVE  /\ \A m \in DOMAIN todo'[q] : ViewOK(m, todo[q][m])'
               /\ pc'[q] # "idle" => ViewOK(job[q].mint, job[q].view)' /\ StopExitOK(q)'
    <3>1. ASSUME NEW m, NEW v \in Position, ViewOK(m, v) PROVE ViewOK(m, v)'
      BY <2>3, <3>1, ViewKept DEF Position
    <3>2. ASSUME NEW m \in DOMAIN todo'[q] PROVE ViewOK(m, todo[q][m])'
      <4>1. PICK v : v = todo[q][m]
        OBVIOUS
      <4>2. v \in Position /\ ViewOK(m, v)
        BY <2>3, <3>2, <4>1 DEF StopLossInv, TypeOK, ProcTypeOK
      <4>3. ViewOK(m, v)'
        BY <3>1, <4>2
      <4> QED
        BY <2>3, <4>1, <4>3 DEF ViewOK
    <3>3. ASSUME pc'[q] # "idle"
          PROVE  ViewOK(job[q].mint, job[q].view)' /\ StopExitOK(q)'
      <4>1. PICK m, v : m = job[q].mint /\ v = job[q].view
        OBVIOUS
      <4>2. job[q] \in Job /\ v \in Position /\ ViewOK(m, v) /\ StopExitOK(q)
        BY <2>3, <3>3, <4>1, JobType DEF StopLossInv, Job
      <4>3. ViewOK(m, v)'
        BY <3>1, <4>2
      <4>4. StopExitOK(q)'
        BY <2>3, <3>3, <4>1, <4>2, ExitKept
      <4> QED
        BY <2>3, <4>1, <4>3, <4>4 DEF ViewOK
    <3> QED
      BY <3>2, <3>3
  <2>4. CASE \/ \E s \in Signals, lot \in Lots : Buy(s, lot)
             \/ \E s \in Signals, type \in {"SIGNAL_REJECTED", "SKIPPED_BY_RPC_ERROR"} :
                   LogSkip(s, type)
    <3>1. Evolves(NoExit)
      BY <2>4, MonitorEvolves
    <3>2. UNCHANGED <<pc, job, todo>>
      BY <2>4 DEF Buy, LogSkip, procs
    <3>3. \A q \in Procs : q # NoExit
      BY ConstantAssumption DEF Procs
    <3>4. \A p \in Procs : ~ Sell(p)
      <4> SUFFICES ASSUME NEW p \in Procs, Sell(p) PROVE FALSE
        OBVIOUS
      <4>1. pc'[p] # pc[p]
        BY DEF Sell, Finish, GoTo, TypeOK, ProcTypeOK
      <4> QED
        BY <3>2, <4>1
    <3>5. StopLossSoldAtLoss'
      BY <2>4, <3>4, NoSaleKept DEF StopLossInv, Next
    <3> QED
      BY <2>2, <2>3, <3>1, <3>2, <3>3, <3>5 DEF StopLossInv
  <2>5. ASSUME NEW p \in Procs, ProcessStep(p) PROVE StopLossInv'
    <3>1. Evolves(p)
      BY <2>5, ProcessEvolves
    <3>2. \A q \in Procs \ {p} : pc'[q] = pc[q] /\ job'[q] = job[q] /\ todo'[q] = todo[q]
      BY <2>5, OthersDoNotMove
    <3>3. /\ \A m \in DOMAIN todo'[p] : ViewOK(m, todo[p][m])'
          /\ pc'[p] # "idle" => ViewOK(job[p].mint, job[p].view)'
      BY <2>5, OwnViews DEF StopLossInv
    <3>4. pc'[p] # "idle" => StopExitOK(p)'
      BY <2>5, OwnExit DEF StopLossInv
    <3>5. StopLossSoldAtLoss'
      <4>1. ASSUME NEW q \in Procs, Sell(q) PROVE StopLossSoldAtLoss'
        <5>1. StopExitOK(q) /\ ViewOK(job[q].mint, job[q].view)
          BY <4>1 DEF Sell, StopLossInv
        <5> QED
          BY <4>1, <5>1, SaleAtLoss DEF StopLossInv
      <4>2. CASE ~ \E q \in Procs : Sell(q)
        BY <2>5, <4>2, NoSaleKept DEF StopLossInv, Next, ProcessStep
      <4> QED
        BY <4>1, <4>2
    <3> QED
      BY <2>2, <2>3, <3>1, <3>2, <3>3, <3>4, <3>5 DEF StopLossInv
  <2> QED
    BY <2>1, <2>4, <2>5 DEF Next, ProcessStep
<1>3. StopLossInv => StopLossSoldAtLoss
  BY DEF StopLossInv
<1> QED
  BY <1>1, <1>2, <1>3, TypeCorrect, PTL DEF Spec

-----------------------------------------------------------------------------
(* One risk loop.  PM2 runs one aibot-risk-manager; main.py's own loop would *)
(* be a second.  With one, whatever users close by hand, only the loop sells *)
(* a part of a position, so what it has read of tokens and take profits      *)
(* stays right until it has evaluated it.                                    *)

\* What was read of the position of m is as it is, if it is still there.
ViewCurrent(m, v) ==
    /\ v.id < nextSeq
    /\ SamePosition(m, v.id) =>
          positions[m].tpDone = v.tpDone /\ positions[m].amount = v.amount

Deciding == {"quoting", "claiming", "requoting", "selling"}
LoopKnows(p) ==
    /\ \A m \in DOMAIN todo[p] : ViewCurrent(m, todo[p][m])
    /\ pc[p] # "idle" => job[p].mint \notin DOMAIN todo[p]
    /\ pc[p] \in Deciding => ViewCurrent(job[p].mint, job[p].view)

\* A dashboard evaluates nothing and closes by hand; a take profit is the first as far as was read;
\* what is sold is the reason's part of the tokens there are.
ExitFits(p) ==
    /\ p \in Dashboards => DOMAIN todo[p] = {}
    /\ p \in Dashboards /\ pc[p] # "idle" => job[p].reason = ManualClose /\ pc[p] # "quoting"
    /\ pc[p] \in {"claiming", "requoting", "selling"} /\ job[p].reason = TakeProfit =>
          ~ job[p].view.tpDone
    /\ pc[p] \in {"requoting", "selling"} /\ HasClaim(p) =>
          job[p].amount = ExitAmount(job[p].reason, positions[job[p].mint].amount)

IdsDiffer ==
    /\ \A m \in Opened : positions[m].id < nextSeq
    /\ \A m, n \in Opened : positions[m].id = positions[n].id => m = n

\* A position of whose take profit the log tells knows of it.
ProfitIsNoted ==
    \A e \in EventSet : IsSell(e) /\ e.reason = TakeProfit =>
       /\ e.id < nextSeq
       /\ \A m \in Opened : positions[m].id = e.id => positions[m].tpDone

\* The inductive invariant behind TakeProfitOnce and PeakOfRemainder.
OneLoopInv ==
    /\ IdsDiffer /\ ProfitIsNoted
    /\ \A p \in RiskLoops : LoopKnows(p)
    /\ \A p \in Procs : ExitFits(p)
    /\ TakeProfitOnce /\ PeakOfRemainder

\* What a step of p does to the position of m: one of three things, or it is gone.
Fresh(m)      == /\ positions'[m].id = nextSeq /\ nextSeq' = nextSeq + 1
                 /\ ~ positions'[m].tpDone /\ positions'[m].exitId = NoExit
PeakFits(pos) == \E price \in Prices \cup {0} : pos.peak = price * pos.amount
Steady(p, m)  == /\ m \in Opened
                 /\ positions'[m].id = positions[m].id
                 /\ positions'[m].tpDone = positions[m].tpDone
                 /\ positions'[m].amount = positions[m].amount
                 /\ positions'[m].exitId \in {positions[m].exitId, NoExit, p}
                 /\ positions'[m].peak = positions[m].peak \/ PeakFits(positions'[m])
TookProfit(m) == /\ m \in Opened
                 /\ positions'[m].id = positions[m].id
                 /\ positions'[m].tpDone
                 /\ positions'[m].peak = 0 /\ positions'[m].exitId = NoExit

\* All of it: one position at most is new or has had a part sold.
OneMoves(p, b) == \A m \in Opened' : \/ m = b /\ (Fresh(m) \/ TookProfit(m))
                                     \/ Steady(p, m)

\* Identities stay distinct and peaks those of what is left, whatever the step.
LEMMA PositionsStay ==
    ASSUME TypeOK, TypeOK', IdsDiffer, PeakOfRemainder, NEW p, NEW b,
           nextSeq' >= nextSeq, OneMoves(p, b)
    PROVE  IdsDiffer' /\ PeakOfRemainder'
<1>1. nextSeq \in Nat /\ nextSeq' \in Nat
  BY DEF TypeOK, LedgerTypeOK
<1>2. \A m \in Opened : positions[m].id \in Nat /\ positions[m].id < nextSeq
  BY DEF TypeOK, LedgerTypeOK, Position, IdsDiffer
<1>3. \A m \in Opened' : \/ m = b /\ positions'[m].id = nextSeq /\ nextSeq' = nextSeq + 1
                         \/ m \in Opened /\ positions'[m].id = positions[m].id
  BY DEF OneMoves, Fresh, Steady, TookProfit
<1>4. IdsDiffer'
  <2>1. \A m \in Opened' : positions'[m].id < nextSeq'
    BY <1>1, <1>2, <1>3
  <2>2. ASSUME NEW m \in Opened', NEW n \in Opened', positions'[m].id = positions'[n].id
        PROVE  m = n
    BY <1>1, <1>2, <1>3, <2>2 DEF IdsDiffer
  <2> QED
    BY <2>1, <2>2 DEF IdsDiffer
<1>5. ASSUME NEW m \in Opened', positions'[m].tpDone
      PROVE  \E price \in Prices \cup {0} : positions'[m].peak = price * positions'[m].amount
  <2>1. CASE Fresh(m)
    BY <1>5, <2>1 DEF Fresh
  <2>2. CASE Steady(p, m)
    BY <1>5, <2>2 DEF Steady, PeakFits, PeakOfRemainder
  <2>3. CASE TookProfit(m)
    <3>1. positions'[m].amount \in Nat
      BY <1>5 DEF TypeOK, LedgerTypeOK, Position
    <3>2. positions'[m].peak = 0 * positions'[m].amount
      BY <2>3, <3>1 DEF TookProfit
    <3> QED
      BY <3>2
  <2> QED
    BY <2>1, <2>2, <2>3 DEF OneMoves
<1> QED
  BY <1>4, <1>5 DEF PeakOfRemainder

\* What was read of a position that the step leaves steady stays current.
LEMMA ViewStaysCurrent ==
    ASSUME TypeOK, TypeOK', NEW p, NEW m, NEW v, ViewCurrent(m, v), v.id \in Nat,
           nextSeq' >= nextSeq,
           m \in Opened' => Fresh(m) \/ Steady(p, m)
    PROVE  ViewCurrent(m, v)'
<1>1. nextSeq \in Nat /\ nextSeq' \in Nat
  BY DEF TypeOK, LedgerTypeOK
<1>2. v.id < nextSeq' /\ v.id # nextSeq
  BY <1>1 DEF ViewCurrent
<1>3. ASSUME SamePosition(m, v.id)'
      PROVE  positions'[m].tpDone = v.tpDone /\ positions'[m].amount = v.amount
  <2>1. m \in Opened' /\ positions'[m].id = v.id
    BY <1>3 DEF SamePosition
  <2>2. Steady(p, m)
    BY <1>2, <2>1 DEF Fresh
  <2>3. SamePosition(m, v.id)
    BY <2>1, <2>2 DEF Steady, SamePosition
  <2> QED
    BY <2>2, <2>3 DEF Steady, ViewCurrent
<1> QED
  BY <1>2, <1>3 DEF ViewCurrent

\* A process that does not move still has what it claimed, if it has its claim.
LEMMA ExitStaysFit ==
    ASSUME TypeOK, TypeOK', NEW p, NEW q \in Procs, q # p, ExitFits(q),
           pc'[q] = pc[q], job'[q] = job[q], todo'[q] = todo[q],
           \A m \in Opened' : Fresh(m) \/ Steady(p, m) \/ TookProfit(m)
    PROVE  ExitFits(q)'
<1>1. q # NoExit
  BY ConstantAssumption DEF Procs
<1>2. ASSUME HasClaim(q)'
      PROVE  HasClaim(q) /\ positions'[job[q].mint].amount = positions[job[q].mint].amount
  <2>1. /\ job[q].mint \in Opened' /\ positions'[job[q].mint].id = job[q].view.id
        /\ positions'[job[q].mint].exitId = q
    BY <1>2 DEF HasClaim, SamePosition
  <2>2. Steady(p, job[q].mint)
    BY <1>1, <2>1 DEF Fresh, TookProfit
  <2> QED
    BY <1>1, <2>1, <2>2 DEF Steady, HasClaim, SamePosition
<1> QED
  BY <1>2 DEF ExitFits

\* A step that replaces one position.
LEMMA OneSteady ==
    ASSUME TypeOK, NEW p, NEW m0 \in Opened, NEW f, positions' = [positions EXCEPT ![m0] = f],
           f.id = positions[m0].id, f.tpDone = positions[m0].tpDone,
           f.amount = positions[m0].amount,
           f.exitId \in {positions[m0].exitId, NoExit, p},
           f.peak = positions[m0].peak \/ PeakFits(f)
    PROVE  \A m \in Opened' : Steady(p, m)
<1>1. /\ Opened' = Opened /\ positions'[m0] = f
      /\ \A m \in Opened \ {m0} : positions'[m] = positions[m]
  BY DEF Opened, TypeOK, LedgerTypeOK
<1>2. ASSUME NEW m \in Opened' PROVE Steady(p, m)
  <2>1. CASE m = m0
    BY <1>1, <2>1 DEF Steady
  <2>2. CASE m # m0
    BY <1>1, <2>2 DEF Steady
  <2> QED
    BY <2>1, <2>2
<1> QED
  BY <1>2

\* A sale that leaves nothing, or a take profit of a position that had none.
LEMMA SaleMoves ==
    ASSUME TypeOK, OneLoopInv, NEW p \in Procs, Sell(p)
    PROVE  /\ \A m \in Opened' :
                 \/ Steady(p, m)
                 \/ /\ p \in RiskLoops /\ m = job[p].mint /\ TookProfit(m)
           /\ job[p].reason = TakeProfit =>
                 /\ p \in RiskLoops
                 /\ ~ positions[job[p].mint].tpDone
                 /\ job[p].mint \in Opened' => TookProfit(job[p].mint)
<1> DEFINE j   == job[p]
           m0  == j.mint
           pos == positions[m0]
<1>1. /\ j \in Job /\ pos \in Position /\ m0 \in Opened /\ HasClaim(p) /\ pc[p] = "selling"
      /\ SamePosition(m0, j.view.id)
  BY JobType DEF Sell, HasClaim, SamePosition, TypeOK, LedgerTypeOK
<1>2. ExitFits(p)
  BY DEF OneLoopInv
<1>3. j.amount = ExitAmount(j.reason, pos.amount)
  BY <1>1, <1>2 DEF ExitFits
<1>4. ASSUME positions' = Without(positions, m0)
      PROVE  m0 \notin Opened' /\ \A m \in Opened' : Steady(p, m)
  BY <1>4 DEF Without, Opened, Steady
<1>5. CASE j.reason # TakeProfit
  <2>1. j.amount = pos.amount
    BY <1>3, <1>5 DEF ExitAmount
  <2>2. ~ (AfterSale(pos, j).amount > 0)
    <3>1. pos.amount \in Nat
      BY <1>1 DEF Position
    <3>2. AfterSale(pos, j).amount = pos.amount - Sold(pos, j)
      BY <1>1 DEF AfterSale, Position
    <3>3. Sold(pos, j) = pos.amount
      BY <2>1 DEF Sold, MinOf
    <3> QED
      BY <3>1, <3>2, <3>3
  <2>3. positions' = Without(positions, m0)
    BY <2>2 DEF Sell
  <2> QED
    BY <1>4, <1>5, <2>3
<1>6. CASE j.reason = TakeProfit
  <2>1. p \in RiskLoops
    BY <1>1, <1>2, <1>6 DEF ExitFits, Procs, ManualClose, TakeProfit
  <2>2. ~ pos.tpDone
    BY <1>1, <1>2, <1>6, <2>1 DEF ExitFits, OneLoopInv, LoopKnows, ViewCurrent, Deciding
  <2>3. CASE positions' = [positions EXCEPT ![m0] = AfterSale(pos, j)]
    <3>1. /\ Opened' = Opened /\ positions'[m0] = AfterSale(pos, j)
          /\ \A m \in Opened \ {m0} : positions'[m] = positions[m]
      BY <1>1, <2>3 DEF Opened, TypeOK, LedgerTypeOK
    <3>2. /\ AfterSale(pos, j).id = pos.id /\ AfterSale(pos, j).tpDone
          /\ AfterSale(pos, j).peak = 0 /\ AfterSale(pos, j).exitId = NoExit
      BY <1>1, <1>6 DEF AfterSale, Position
    <3>3. TookProfit(m0)
      BY <1>1, <3>1, <3>2 DEF TookProfit
    <3>4. \A m \in Opened' \ {m0} : Steady(p, m)
      BY <3>1 DEF Steady
    <3> QED
      BY <2>1, <2>2, <3>3, <3>4
  <2>4. CASE positions' = Without(positions, m0)
    BY <1>4, <2>1, <2>2, <2>4
  <2> QED
    BY <2>3, <2>4 DEF Sell
<1> QED
  BY <1>5, <1>6

\* No other step of a process disturbs what has been read.
LEMMA ProcessIsSteady ==
    ASSUME TypeOK, OneLoopInv, NEW p \in Procs, ProcessStep(p), ~ Sell(p)
    PROVE  /\ \A m \in Opened' : Steady(p, m)
           /\ UNCHANGED <<events, nextSeq>>
<1>0. UNCHANGED <<events, nextSeq>>
  BY DEF ProcessStep, ProcStep, Poll, Evaluate, QuoteOk, RequoteOk, RecordFailure,
     RequoteFails, Claim, ClaimRefused, SellRefused, Release, CloseExperiment,
     StartManualClose, LockTimesOut, Crash, Abandon, ledger
<1> DEFINE Still == \A m \in Opened' : Steady(p, m)
<1> SUFFICES Still
  BY <1>0
<1>1. PICK m0 : m0 = job[p].mint
  OBVIOUS
<1>2. m0 \in Opened => positions[m0] \in Position
  BY DEF TypeOK, LedgerTypeOK
<1>3. CASE positions' = positions
  BY <1>3 DEF Steady, Opened
<1>4. ASSUME NEW price \in Prices, QuoteOk(p, price)
      PROVE  Still
  <2> DEFINE v == price * job[p].view.amount
             f == Marked(positions[m0], v)
  <2>1. pc[p] = "quoting" /\ ChangePosition(p, f)
    BY <1>1, <1>4 DEF QuoteOk
  <2>2. CASE SamePosition(m0, job[p].view.id)
    <3>1. m0 \in Opened /\ positions[m0] \in Position
      BY <1>2, <2>2 DEF SamePosition
    <3>2. p \in RiskLoops
      BY <2>1 DEF OneLoopInv, ExitFits, Procs
    <3>3. job[p].view.amount = positions[m0].amount
      BY <1>1, <2>1, <2>2, <3>2 DEF OneLoopInv, LoopKnows, ViewCurrent, Deciding
    <3>4. /\ f.id = positions[m0].id /\ f.tpDone = positions[m0].tpDone
          /\ f.amount = positions[m0].amount /\ f.exitId = positions[m0].exitId
          /\ f.peak = positions[m0].peak \/ f.peak = v
      BY <3>1 DEF Marked, Position, MaxOf
    <3>5. f.peak = v => PeakFits(f)
      BY <3>3, <3>4 DEF PeakFits
    <3>6. positions' = [positions EXCEPT ![m0] = f]
      BY <1>1, <2>1, <2>2 DEF ChangePosition
    <3> HIDE DEF f, v
    <3> QED
      BY <3>1, <3>4, <3>5, <3>6, OneSteady, Zenon
  <2>3. CASE ~ SamePosition(m0, job[p].view.id)
    BY <1>1, <1>3, <2>1, <2>3 DEF ChangePosition
  <2> QED
    BY <2>2, <2>3
<1>5. ASSUME NEW gap \in BOOLEAN, RecordFailure(p, gap)
      PROVE  Still
  <2> DEFINE f == QuoteFailed(positions[m0], gap)
  <2>1. ChangePosition(p, f)
    BY <1>1, <1>5 DEF RecordFailure
  <2>2. CASE SamePosition(m0, job[p].view.id)
    <3>1. m0 \in Opened /\ positions[m0] \in Position
      BY <1>2, <2>2 DEF SamePosition
    <3>2. /\ f.id = positions[m0].id /\ f.tpDone = positions[m0].tpDone
          /\ f.amount = positions[m0].amount /\ f.exitId = positions[m0].exitId
          /\ f.peak = positions[m0].peak
      BY <3>1 DEF QuoteFailed, Position
    <3>3. positions' = [positions EXCEPT ![m0] = f]
      BY <1>1, <2>1, <2>2 DEF ChangePosition
    <3> HIDE DEF f
    <3> QED
      BY <3>1, <3>2, <3>3, OneSteady, Zenon
  <2>3. CASE ~ SamePosition(m0, job[p].view.id)
    BY <1>1, <1>3, <2>1, <2>3 DEF ChangePosition
  <2> QED
    BY <2>2, <2>3
<1>6. CASE Claim(p)
  <2> DEFINE f == [positions[m0] EXCEPT !.state = "EXIT_PENDING", !.exitId = p]
  <2>1. m0 \in Opened /\ positions' = [positions EXCEPT ![m0] = f]
    BY <1>1, <1>6 DEF Claim, MayClaim, SamePosition
  <2>2. /\ f.id = positions[m0].id /\ f.tpDone = positions[m0].tpDone
        /\ f.amount = positions[m0].amount /\ f.exitId = p
        /\ f.peak = positions[m0].peak
    BY <1>2, <2>1 DEF Position
  <2> HIDE DEF f
  <2> QED
    BY <2>1, <2>2, OneSteady, Zenon
<1>7. CASE Release(p)
  <2> DEFINE f == [positions[m0] EXCEPT !.exitId = NoExit,
                     !.state = IF job[p].degraded THEN "DEGRADED" ELSE "NORMAL"]
  <2>1. CASE HasClaim(p)
    <3>1. m0 \in Opened /\ positions' = [positions EXCEPT ![m0] = f]
      BY <1>1, <1>7, <2>1 DEF Release, HasClaim, SamePosition
    <3>2. /\ f.id = positions[m0].id /\ f.tpDone = positions[m0].tpDone
          /\ f.amount = positions[m0].amount /\ f.exitId = NoExit
          /\ f.peak = positions[m0].peak
      BY <1>2, <3>1 DEF Position
    <3> HIDE DEF f
    <3> QED
      BY <3>1, <3>2, OneSteady, Zenon
  <2>2. CASE ~ HasClaim(p)
    BY <1>3, <1>7, <2>2 DEF Release
  <2> QED
    BY <2>1, <2>2
<1> HIDE DEF Still
<1> QED
  BY <1>3, <1>4, <1>5, <1>6, <1>7 DEF ProcessStep, ProcStep, Poll, Evaluate, RequoteOk,
     RequoteFails, ClaimRefused, SellRefused, CloseExperiment, StartManualClose,
     LockTimesOut, Crash, Abandon, ledger

\* The monitor's steps: a position that is new, or none.
LEMMA MonitorIsSteady ==
    ASSUME TypeOK,
           \/ \E s \in Signals, lot \in Lots : Buy(s, lot)
           \/ \E s \in Signals, type \in {"SIGNAL_REJECTED", "SKIPPED_BY_RPC_ERROR"} :
                 LogSkip(s, type)
    PROVE  /\ nextSeq' >= nextSeq
           /\ \E b : \A m \in Opened' : (m = b /\ Fresh(m)) \/ Steady(NoExit, m)
<1>1. nextSeq \in Nat
  BY DEF TypeOK, LedgerTypeOK
<1>2. ASSUME NEW s \in Signals, NEW lot \in Lots, Buy(s, lot)
      PROVE  /\ nextSeq' >= nextSeq
             /\ \A m \in Opened' : (m = SignalMint[s] /\ Fresh(m)) \/ Steady(NoExit, m)
  <2> DEFINE m0 == SignalMint[s]
             pos == [id |-> nextSeq, signal |-> s, amount |-> lot.amount,
                     cost |-> lot.cost, state |-> "NORMAL", exitId |-> NoExit,
                     tpDone |-> FALSE, peak |-> 0, failures |-> 0]
  <2>1. positions' = With(positions, m0, pos) /\ nextSeq' = nextSeq + 1
    BY <1>2 DEF Buy
  <2>2. pos.id = nextSeq /\ ~ pos.tpDone /\ pos.exitId = NoExit
    OBVIOUS
  <2> HIDE DEF m0, pos
  <2>3. ASSUME NEW m \in Opened'
        PROVE  \/ m = m0 /\ positions'[m] = pos
               \/ m \in Opened /\ positions'[m] = positions[m]
    BY <2>1 DEF With, Opened
  <2>4. ASSUME NEW m \in Opened' PROVE (m = m0 /\ Fresh(m)) \/ Steady(NoExit, m)
    BY <2>1, <2>2, <2>3 DEF Fresh, Steady
  <2> QED
    BY <1>1, <2>1, <2>4 DEF m0
<1>3. ASSUME NEW s \in Signals, NEW type \in {"SIGNAL_REJECTED", "SKIPPED_BY_RPC_ERROR"},
             LogSkip(s, type)
      PROVE  nextSeq' >= nextSeq /\ \A m \in Opened' : Steady(NoExit, m)
  BY <1>1, <1>3 DEF LogSkip, Steady, Opened
<1> QED
  BY <1>2, <1>3

\* The log after one more event has no others than before.
LEMMA EventsAfter ==
    ASSUME TypeOK, NEW e \in Event,
           \/ events' = Append(events, e)
           \/ events' = LastOf(Append(events, e), MaxEvents)
    PROVE  \A f \in EventSet' : f = e \/ f \in EventSet
<1>1. /\ events \in Seq(Event) /\ MaxEvents \in Nat \ {0}
      /\ Append(events, e) \in Seq(Event)
  BY ConstantAssumption DEF TypeOK, LedgerTypeOK
<1>2. ASSUME NEW f \in EventSet' PROVE f = e \/ f \in EventSet
  <2>1. \E i \in 1 .. Len(Append(events, e)) : f = Append(events, e)[i]
    <3>1. CASE events' = Append(events, e)
      BY <1>2, <3>1 DEF EventSet
    <3>2. CASE events' = LastOf(Append(events, e), MaxEvents)
      <4> DEFINE s == Append(events, e)
      <4>1. PICK i \in 1 .. Len(LastOf(s, MaxEvents)) : f = LastOf(s, MaxEvents)[i]
        BY <1>2, <3>2 DEF EventSet
      <4>2. s \in Seq(Event) /\ MaxEvents \in Nat \ {0}
        BY <1>1
      <4> HIDE DEF s
      <4>3. \E k \in 1 .. Len(s) : f = s[k]
        BY <4>1, <4>2, EventsOfLog
      <4> QED
        BY <4>3 DEF s
    <3> QED
      BY <3>1, <3>2
  <2>2. f = e \/ \E k \in 1 .. Len(events) : f = events[k]
    BY <1>1, <2>1
  <2> QED
    BY <2>2 DEF EventSet
<1> QED
  BY <1>2

\* The monitor logs no sale.
LEMMA MonitorSellsNothing ==
    ASSUME TypeOK,
           \/ \E s \in Signals, lot \in Lots : Buy(s, lot)
           \/ \E s \in Signals, type \in {"SIGNAL_REJECTED", "SKIPPED_BY_RPC_ERROR"} :
                 LogSkip(s, type)
    PROVE  \A f \in EventSet' : IsSell(f) => f \in EventSet
<1>1. nextSeq \in Nat
  BY DEF TypeOK, LedgerTypeOK
<1>2. ASSUME NEW s \in Signals, NEW lot \in Lots, Buy(s, lot)
      PROVE  \A f \in EventSet' : IsSell(f) => f \in EventSet
  <2> DEFINE e == [type |-> "BUY", seq |-> nextSeq, mint |-> SignalMint[s], signal |-> s,
                   cost |-> lot.cost, amount |-> lot.amount]
  <2>1. e \in Event /\ ~ IsSell(e)
    BY <1>1, ConstantAssumption DEF Event, BuyEvent, IsSell
  <2>2. events' = Append(events, e)
    BY <1>2 DEF Buy
  <2> HIDE DEF e
  <2> QED
    BY <2>1, <2>2, EventsAfter
<1>3. ASSUME NEW s \in Signals, NEW type \in {"SIGNAL_REJECTED", "SKIPPED_BY_RPC_ERROR"},
             LogSkip(s, type)
      PROVE  \A f \in EventSet' : IsSell(f) => f \in EventSet
  <2> DEFINE e == [type |-> type, seq |-> nextSeq, mint |-> SignalMint[s], signal |-> s]
  <2>1. e \in Event /\ ~ IsSell(e)
    BY <1>1, ConstantAssumption DEF Event, SkipEvent, IsSell
  <2>2. events' = LastOf(Append(events, e), MaxEvents)
    BY <1>3 DEF LogSkip
  <2> HIDE DEF e
  <2> QED
    BY <2>1, <2>2, EventsAfter
<1> QED
  BY <1>2, <1>3

\* A step that logs no take profit but at most one, e, of the position of s, which had
\* not taken any, and which now has or is gone.
LEMMA ProfitStaysNoted ==
    ASSUME TypeOK, TypeOK', IdsDiffer, ProfitIsNoted, TakeProfitOnce, NEW p, NEW s, NEW e,
           nextSeq' >= nextSeq,
           \A m \in Opened' : Fresh(m) \/ Steady(p, m) \/ TookProfit(m),
           \A f \in EventSet' : IsSell(f) /\ f.reason = TakeProfit => f = e \/ f \in EventSet,
           e \in EventSet' /\ e \notin EventSet /\ IsSell(e) /\ e.reason = TakeProfit =>
              /\ s \in Opened /\ e.id = positions[s].id /\ ~ positions[s].tpDone
              /\ s \in Opened' => TookProfit(s)
    PROVE  ProfitIsNoted' /\ TakeProfitOnce'
<1>1. nextSeq \in Nat /\ nextSeq' \in Nat
  BY DEF TypeOK, LedgerTypeOK
<1>2. \A m \in Opened : positions[m].id \in Nat /\ positions[m].id < nextSeq
  BY DEF TypeOK, LedgerTypeOK, Position, IdsDiffer
<1> DEFINE Profit(f) == IsSell(f) /\ f.reason = TakeProfit
<1>3. ASSUME NEW f \in EventSet', Profit(f), f \in EventSet
      PROVE  f.id < nextSeq /\ \A m \in Opened : positions[m].id = f.id => positions[m].tpDone
  BY <1>3 DEF ProfitIsNoted
<1>4. ASSUME NEW f \in EventSet', Profit(f), f \notin EventSet
      PROVE  /\ f = e /\ s \in Opened /\ f.id = positions[s].id /\ ~ positions[s].tpDone
             /\ s \in Opened' => TookProfit(s)
  BY <1>4
<1>5. ASSUME NEW f \in EventSet', Profit(f)
      PROVE  f.id < nextSeq' /\ f.id < nextSeq
  <2>1. f.id \in Nat
    <3>1. f \in Event
      BY <1>5 DEF EventSet, TypeOK, LedgerTypeOK
    <3> QED
      BY <1>5, <3>1 DEF Event, BuyEvent, SellEvent, SkipEvent, IsSell
  <2>2. f.id < nextSeq
    BY <1>2, <1>3, <1>4, <1>5
  <2> QED
    BY <1>1, <2>1, <2>2
<1>6. ASSUME NEW f \in EventSet', Profit(f), NEW m \in Opened', positions'[m].id = f.id
      PROVE  positions'[m].tpDone
  <2>1. ~ Fresh(m)
    BY <1>1, <1>5, <1>6 DEF Fresh
  <2>2. CASE TookProfit(m)
    BY <2>2 DEF TookProfit
  <2>3. CASE Steady(p, m)
    <3>1. m \in Opened /\ positions[m].id = f.id /\ positions'[m].tpDone = positions[m].tpDone
      BY <1>6, <2>3 DEF Steady
    <3>2. CASE f \in EventSet
      BY <1>3, <1>6, <3>1, <3>2
    <3>3. CASE f \notin EventSet
      <4>1. m = s /\ TookProfit(s)
        BY <1>4, <1>6, <3>1, <3>3 DEF IdsDiffer
      <4> QED
        BY <4>1 DEF TookProfit
    <3> QED
      BY <3>2, <3>3
  <2> QED
    BY <2>1, <2>2, <2>3
<1>7. ASSUME NEW f \in EventSet', NEW g \in EventSet', Profit(f), Profit(g), f.id = g.id
      PROVE  f = g
  <2>1. CASE f \in EventSet /\ g \in EventSet
    BY <1>7, <2>1 DEF TakeProfitOnce
  <2>2. CASE f \notin EventSet /\ g \notin EventSet
    BY <1>4, <1>7, <2>2
  <2>3. CASE f \in EventSet /\ g \notin EventSet
    BY <1>3, <1>4, <1>7, <2>3
  <2>4. CASE f \notin EventSet /\ g \in EventSet
    BY <1>3, <1>4, <1>7, <2>4
  <2> QED
    BY <2>1, <2>2, <2>3, <2>4
<1> QED
  BY <1>5, <1>6, <1>7 DEF ProfitIsNoted, TakeProfitOnce

\* The exit of the process that moves fits again.
LEMMA OwnExitFits ==
    ASSUME TypeOK, TypeOK', OneLoopInv, NEW p \in Procs, ProcessStep(p)
    PROVE  ExitFits(p)'
<1>0. /\ DOMAIN pc = Procs /\ DOMAIN job = Procs /\ ExitFits(p)
      /\ p \in Dashboards => p \notin RiskLoops
  BY ConstantAssumption DEF TypeOK, ProcTypeOK, OneLoopInv
<1>10. p \in Dashboards => DOMAIN todo'[p] = {}
  <2> SUFFICES ASSUME p \in Dashboards PROVE DOMAIN todo'[p] = {}
    OBVIOUS
  <2>1. DOMAIN todo[p] = {} /\ p \notin RiskLoops
    BY <1>0 DEF ExitFits
  <2>2. todo' = todo \/ Crash(p)
    BY <2>1, TodoStays DEF Poll, Evaluate
  <2>3. CASE Crash(p)
    <3>1. todo'[p] = <<>>
      BY <2>3 DEF Crash, TypeOK, ProcTypeOK
    <3> QED
      BY <3>1
  <2> QED
    BY <2>1, <2>2, <2>3
<1>1. CASE pc'[p] = "idle"
  BY <1>1, <1>10 DEF ExitFits
<1>2. ASSUME NEW m \in Mints, StartManualClose(p, m)
      PROVE  ExitFits(p)'
  <2>1. pc'[p] = "claiming" /\ job'[p].reason = ManualClose
    BY <1>0, <1>2 DEF StartManualClose, GoTo
  <2> QED
    BY <1>10, <2>1 DEF ExitFits, ManualClose, TakeProfit
<1>3. ASSUME NEW m \in Mints, Evaluate(p, m), pc'[p] # "idle"
      PROVE  ExitFits(p)'
  <2>1. pc'[p] = "quoting" /\ m \in DOMAIN todo[p]
    BY <1>0, <1>3 DEF Evaluate, GoTo
  <2>2. p \notin Dashboards
    BY <1>0, <2>1 DEF ExitFits
  <2> QED
    BY <1>10, <2>1, <2>2 DEF ExitFits
<1>4. ASSUME NEW price \in Prices, QuoteOk(p, price), pc'[p] # "idle"
      PROVE  ExitFits(p)'
  <2>1. job[p] \in Job /\ pc[p] = "quoting"
    BY <1>4, JobType DEF QuoteOk
  <2>2. p \notin Dashboards
    BY <1>0, <2>1 DEF ExitFits
  <2>3. pc'[p] = "claiming" /\ job'[p].view = job[p].view
    BY <1>0, <1>4, <2>1 DEF QuoteOk, GoTo, Finish, Job
  <2>4. job'[p].reason = TakeProfit => ~ job[p].view.tpDone
    BY <1>0, <1>4, <2>1, <2>3
       DEF QuoteOk, GoTo, Finish, Job, TakeProfitTriggered, TakeProfit, TrailingStop, StopLoss
  <2> QED
    BY <1>10, <2>2, <2>3, <2>4 DEF ExitFits
<1>5. CASE Claim(p)
  <2> DEFINE m == job[p].mint
             a == ExitAmount(job[p].reason, positions[m].amount)
  <2>1. /\ job[p] \in Job /\ m \in Opened /\ pc[p] = "claiming"
        /\ positions[m] \in Position
    BY <1>5, JobType DEF Claim, MayClaim, SamePosition, TypeOK, LedgerTypeOK
  <2>2. /\ job'[p].amount = a /\ job'[p].mint = m /\ job'[p].view = job[p].view
        /\ job'[p].reason = job[p].reason
    BY <1>0, <1>5, <2>1 DEF Claim, Job
  <2>3. positions'[m].amount = positions[m].amount
    BY <1>5, <2>1 DEF Claim, Opened, TypeOK, LedgerTypeOK, Position
  <2>4. pc'[p] \in {"releasing", "selling", "requoting"}
    BY <1>0, <1>5 DEF Claim, GoTo
  <2>5. job'[p].amount = ExitAmount(job'[p].reason, positions'[job'[p].mint].amount)
    BY <2>2, <2>3
  <2> HIDE DEF a
  <2> QED
    BY <1>0, <1>10, <2>1, <2>2, <2>4, <2>5 DEF ExitFits
<1>6. ASSUME NEW price \in Prices, RequoteOk(p, price)
      PROVE  ExitFits(p)'
  <2>1. /\ job[p] \in Job /\ pc'[p] = "selling" /\ pc[p] = "requoting"
        /\ job'[p].reason = job[p].reason /\ job'[p].view = job[p].view
        /\ job'[p].mint = job[p].mint /\ job'[p].amount = job[p].amount
        /\ positions' = positions
    BY <1>0, <1>6, JobType DEF RequoteOk, GoTo, Job, ledger
  <2>2. HasClaim(p)' => HasClaim(p)
    BY <2>1 DEF HasClaim, SamePosition, Opened
  <2> QED
    BY <1>0, <1>10, <2>1, <2>2 DEF ExitFits
<1>7. ASSUME pc'[p] \in {"releasing", "failing", "closing"}, pc[p] # "idle",
             job'[p].reason = job[p].reason
      PROVE  ExitFits(p)'
  BY <1>0, <1>7, <1>10 DEF ExitFits
<1>8. ASSUME \/ RequoteFails(p) \/ Sell(p) \/ SellRefused(p) \/ Release(p)
             \/ LockTimesOut(p), pc'[p] # "idle"
      PROVE  ExitFits(p)'
  <2>1. pc[p] # "idle"
    BY <1>8 DEF RequoteFails, Sell, SellRefused, Release, LockTimesOut
  <2>2. job[p] \in Job
    BY <2>1, JobType
  <2>3. pc'[p] \in {"releasing", "failing", "closing"}
    BY <1>0, <1>8 DEF RequoteFails, Sell, SellRefused, Release, LockTimesOut, Abandon,
       GoTo, Finish
  <2>4. job'[p].reason = job[p].reason
    BY <1>0, <1>8, <2>2 DEF RequoteFails, Sell, SellRefused, Release, LockTimesOut, Abandon,
       GoTo, Finish, Job
  <2> QED
    BY <1>7, <2>1, <2>3, <2>4
<1>9. CASE \/ Poll(p) \/ \E gap \in BOOLEAN : RecordFailure(p, gap)
           \/ ClaimRefused(p) \/ CloseExperiment(p) \/ Crash(p)
  <2>1. pc'[p] = "idle"
    BY <1>0, <1>9 DEF Poll, RecordFailure, ClaimRefused, CloseExperiment, Crash, Finish, GoTo
  <2> QED
    BY <1>1, <2>1
<1> QED
  BY <1>1, <1>2, <1>3, <1>4, <1>5, <1>6, <1>8, <1>9 DEF ProcessStep, ProcStep

\* What the loop that moves has read is current again.
LEMMA OwnViewsCurrent ==
    ASSUME TypeOK, TypeOK', OneLoopInv, NEW p \in RiskLoops, ProcessStep(p),
           nextSeq' >= nextSeq,
           \A m \in Opened' : Steady(p, m) \/ (Sell(p) /\ m = job[p].mint)
    PROVE  LoopKnows(p)'
<1>1. /\ DOMAIN pc = Procs /\ DOMAIN job = Procs /\ DOMAIN todo = Procs /\ p \in Procs
      /\ \A m \in DOMAIN todo[p] : todo[p][m] \in Position
      /\ LoopKnows(p) /\ IdsDiffer /\ p \notin Dashboards
  BY ConstantAssumption DEF TypeOK, ProcTypeOK, OneLoopInv, Procs
<1>2. ASSUME NEW m, NEW v \in Position, ViewCurrent(m, v), ~ Sell(p) \/ m # job[p].mint
      PROVE  ViewCurrent(m, v)'
  <2>1. m \in Opened' => Fresh(m) \/ Steady(p, m)
    BY <1>2
  <2>2. v.id \in Nat
    BY DEF Position
  <2> QED
    BY <1>2, <2>1, <2>2, ViewStaysCurrent
<1>3. ASSUME NEW m \in Opened PROVE positions[m] \in Position /\ ViewCurrent(m, positions[m])
  BY <1>1 DEF ViewCurrent, IdsDiffer, TypeOK, LedgerTypeOK
<1>4. \/ Poll(p)
      \/ \A m \in DOMAIN todo'[p] : m \in DOMAIN todo[p] /\ todo'[p][m] = todo[p][m]
  <2>0. Poll(p) \/ Crash(p) \/ (\E x \in Mints : Evaluate(p, x)) \/ todo' = todo
    BY <1>1, TodoStays
  <2>1. ASSUME NEW x \in Mints, Evaluate(p, x), NEW m \in DOMAIN todo'[p]
        PROVE  m \in DOMAIN todo[p] /\ todo'[p][m] = todo[p][m]
    BY <1>1, <2>1 DEF Evaluate, Without
  <2>2. ASSUME Crash(p), NEW m \in DOMAIN todo'[p] PROVE FALSE
    BY <1>1, <2>2 DEF Crash
  <2> QED
    BY <2>0, <2>1, <2>2
<1>5. Sell(p) => pc[p] # "idle" /\ pc'[p] \in {"idle", "closing"} /\ ~ Poll(p)
  BY <1>1 DEF Sell, Finish, GoTo, Poll
<1>6. ASSUME NEW m \in DOMAIN todo'[p] PROVE ViewCurrent(m, todo[p][m])'
  <2>1. PICK v : v = todo'[p][m]
    OBVIOUS
  <2>2. CASE Poll(p)
    <3>1. m \in Opened /\ v = positions[m]
      BY <1>1, <1>6, <2>1, <2>2 DEF Poll, Opened
    <3>2. v \in Position /\ ViewCurrent(m, v) /\ ~ Sell(p)
      BY <1>3, <1>5, <2>2, <3>1
    <3>3. ViewCurrent(m, v)'
      BY <1>2, <3>2
    <3> QED
      BY <2>1, <3>3 DEF ViewCurrent
  <2>3. CASE ~ Poll(p)
    <3>1. m \in DOMAIN todo[p] /\ v = todo[p][m]
      BY <1>4, <1>6, <2>1, <2>3
    <3>2. v \in Position /\ ViewCurrent(m, v) /\ (~ Sell(p) \/ m # job[p].mint)
      BY <1>1, <1>5, <3>1 DEF LoopKnows
    <3>3. ViewCurrent(m, v)'
      BY <1>2, <3>2
    <3> QED
      BY <2>1, <3>3 DEF ViewCurrent
  <2> QED
    BY <2>2, <2>3
<1>7. ASSUME pc'[p] # "idle"
      PROVE  /\ job'[p].mint \notin DOMAIN todo'[p]
             /\ pc'[p] \in Deciding => ViewCurrent(job[p].mint, job[p].view)'
  <2>1. ~ \E x \in Mints : StartManualClose(p, x)
    BY <1>1 DEF StartManualClose
  <2>2. ASSUME NEW x \in Mints, Evaluate(p, x)
        PROVE  /\ job'[p].mint \notin DOMAIN todo'[p]
               /\ ViewCurrent(job[p].mint, job[p].view)'
    <3>1. PICK v : v = todo[p][x]
      OBVIOUS
    <3>2. /\ pc[p] = "idle" /\ x \in DOMAIN todo[p] /\ job'[p].mint = x /\ job'[p].view = v
          /\ DOMAIN todo'[p] = DOMAIN todo[p] \ {x}
      BY <1>1, <1>7, <2>2, <3>1 DEF Evaluate, Without
    <3>3. v \in Position /\ ViewCurrent(x, v) /\ ~ Sell(p)
      BY <1>1, <1>5, <3>1, <3>2 DEF LoopKnows
    <3>4. ViewCurrent(x, v)'
      BY <1>2, <3>3
    <3> QED
      BY <3>2, <3>4 DEF ViewCurrent
  <2>3. CASE ~ \E x \in Mints : Evaluate(p, x)
    <3>1. PICK m, v : m = job[p].mint /\ v = job[p].view
      OBVIOUS
    <3>2. /\ pc[p] # "idle" /\ job[p] \in Job
          /\ job'[p].mint = m /\ job'[p].view = v
      BY <1>1, <1>7, <2>1, <2>3, <3>1, JobGoesOn
    <3>3. m \notin DOMAIN todo'[p]
      BY <1>1, <1>4, <3>1, <3>2 DEF LoopKnows, Poll
    <3>4. ASSUME pc'[p] \in Deciding PROVE ViewCurrent(m, v)'
      <4>1. pc[p] \in Deciding
        BY <1>1, <2>1, <2>3, <3>2, <3>4 DEF ProcessStep, ProcStep, Poll, QuoteOk, RequoteOk,
           RecordFailure, RequoteFails, Claim, ClaimRefused, Sell, SellRefused, Release,
           CloseExperiment, LockTimesOut, Crash, Abandon, Finish, GoTo, Deciding
      <4>2. v \in Position /\ ViewCurrent(m, v) /\ ~ Sell(p)
        BY <1>1, <1>5, <3>1, <3>2, <3>4, <4>1 DEF LoopKnows, Job, Deciding
      <4> QED
        BY <1>2, <4>2
    <3> QED
      BY <3>2, <3>3, <3>4 DEF ViewCurrent
  <2> QED
    BY <2>2, <2>3
<1> QED
  BY <1>6, <1>7 DEF LoopKnows, Deciding

\* What a loop that does not move has read stays current unless a profit is taken.
LEMMA LoopStaysInformed ==
    ASSUME TypeOK, TypeOK', NEW p, NEW q \in Procs, LoopKnows(q),
           pc'[q] = pc[q], job'[q] = job[q], todo'[q] = todo[q],
           nextSeq' >= nextSeq,
           \A m \in Opened' : Fresh(m) \/ Steady(p, m)
    PROVE  LoopKnows(q)'
<1>1. ASSUME NEW m, NEW v \in Position, ViewCurrent(m, v) PROVE ViewCurrent(m, v)'
  <2>1. v.id \in Nat
    BY DEF Position
  <2> QED
    BY <1>1, <2>1, ViewStaysCurrent
<1>2. ASSUME NEW m \in DOMAIN todo'[q] PROVE ViewCurrent(m, todo[q][m])'
  <2>1. PICK v : v = todo[q][m]
    OBVIOUS
  <2>2. v \in Position /\ ViewCurrent(m, v)
    BY <1>2, <2>1 DEF LoopKnows, TypeOK, ProcTypeOK
  <2>3. ViewCurrent(m, v)'
    BY <1>1, <2>2
  <2> QED
    BY <2>1, <2>3 DEF ViewCurrent
<1>3. ASSUME pc'[q] \in Deciding PROVE ViewCurrent(job[q].mint, job[q].view)'
  <2>1. PICK m, v : m = job[q].mint /\ v = job[q].view
    OBVIOUS
  <2>2. job[q] \in Job
    BY <1>3, JobType DEF Deciding
  <2>3. v \in Position /\ ViewCurrent(m, v)
    BY <1>3, <2>1, <2>2 DEF LoopKnows, Job
  <2>4. ViewCurrent(m, v)'
    BY <1>1, <2>3
  <2> QED
    BY <2>1, <2>4 DEF ViewCurrent
<1>4. pc'[q] # "idle" => job'[q].mint \notin DOMAIN todo'[q]
  BY DEF LoopKnows
<1> QED
  BY <1>2, <1>3, <1>4 DEF LoopKnows, Deciding

\* The log after a sale.
LEMMA SaleIsNoted ==
    ASSUME TypeOK, TypeOK', OneLoopInv, NEW p \in Procs, Sell(p)
    PROVE  nextSeq' >= nextSeq /\ ProfitIsNoted' /\ TakeProfitOnce'
<1> DEFINE j   == job[p]
           m   == j.mint
           pos == positions[m]
           e   == [type |-> "SELL", seq |-> nextSeq, mint |-> m, id |-> pos.id,
                   signal |-> pos.signal, reason |-> j.reason, sold |-> Sold(pos, j),
                   proceeds |-> j.value, pnl |-> Pnl(pos, j)]
<1>1. /\ j \in Job /\ pos \in Position /\ HasClaim(p) /\ m \in Mints /\ m \in Opened
      /\ nextSeq \in Nat
  BY JobType DEF Sell, HasClaim, SamePosition, TypeOK, LedgerTypeOK
<1>2. events' = Append(events, e) /\ nextSeq' = nextSeq + 1
  BY DEF Sell
<1>3. e \in Event
  BY <1>1, AfterSaleType DEF Event, SellEvent, Job, Position, TypeOK, LedgerTypeOK
<1>4. e.reason = j.reason /\ e.id = pos.id
  OBVIOUS
<1> HIDE DEF e
<1>5. \A f \in EventSet' : f = e \/ f \in EventSet
  BY <1>2, <1>3, EventsAfter
<1>6. nextSeq' >= nextSeq
  BY <1>1, <1>2
<1>7. \A n \in Opened' : Steady(p, n) \/ (n = m /\ TookProfit(n))
  BY SaleMoves
<1>8. e.reason = TakeProfit => ~ pos.tpDone /\ (m \in Opened' => TookProfit(m))
  BY <1>4, SaleMoves
<1>9. /\ \A n \in Opened' : Fresh(n) \/ Steady(p, n) \/ TookProfit(n)
      /\ \A f \in EventSet' : IsSell(f) /\ f.reason = TakeProfit => f = e \/ f \in EventSet
      /\ e \in EventSet' /\ e \notin EventSet /\ IsSell(e) /\ e.reason = TakeProfit =>
            /\ m \in Opened /\ e.id = positions[m].id /\ ~ positions[m].tpDone
            /\ m \in Opened' => TookProfit(m)
  BY <1>1, <1>4, <1>5, <1>7, <1>8
<1>10. IdsDiffer /\ ProfitIsNoted /\ TakeProfitOnce
  BY DEF OneLoopInv
<1> HIDE DEF m
<1> QED
  BY <1>6, <1>9, <1>10, ProfitStaysNoted

\* A step of one process, with one loop.
LEMMA OneLoopProcess ==
    ASSUME NEW r, RiskLoops = {r}, TypeOK, TypeOK', OneLoopInv, NEW p \in Procs, ProcessStep(p)
    PROVE  OneLoopInv'
<1>0. /\ nextSeq \in Nat /\ IdsDiffer /\ ProfitIsNoted /\ TakeProfitOnce /\ PeakOfRemainder
      /\ \A q \in Procs : ExitFits(q)
      /\ \A q \in RiskLoops : LoopKnows(q) /\ q \in Procs
  BY DEF TypeOK, LedgerTypeOK, OneLoopInv, Procs
<1>1. \A q \in Procs \ {p} : pc'[q] = pc[q] /\ job'[q] = job[q] /\ todo'[q] = todo[q]
  BY OthersDoNotMove
<1>2. \A m \in Opened' : \/ Steady(p, m)
                         \/ Sell(p) /\ p \in RiskLoops /\ m = job[p].mint /\ TookProfit(m)
  BY SaleMoves, ProcessIsSteady
<1>3. nextSeq' >= nextSeq /\ ProfitIsNoted' /\ TakeProfitOnce'
  <2>1. CASE Sell(p)
    BY <2>1, SaleIsNoted
  <2>2. CASE ~ Sell(p)
    <3>1. events' = events /\ nextSeq' = nextSeq /\ \A m \in Opened' : Steady(p, m)
      BY <2>2, ProcessIsSteady
    <3>2. \A f \in EventSet' : f \in EventSet
      BY <3>1 DEF EventSet
    <3>3. PICK e : e \notin EventSet' \/ e \in EventSet
      BY <3>2
    <3>4. nextSeq' >= nextSeq
      BY <1>0, <3>1
    <3> QED
      BY <1>0, <3>1, <3>2, <3>3, <3>4, ProfitStaysNoted
  <2> QED
    BY <2>1, <2>2
<1>4. IdsDiffer' /\ PeakOfRemainder'
  <2>1. PICK s : s = job[p].mint
    OBVIOUS
  <2>2. OneMoves(p, s)
    BY <1>2, <2>1 DEF OneMoves
  <2> QED
    BY <1>0, <1>3, <2>2, PositionsStay
<1>5. ASSUME NEW q \in Procs PROVE ExitFits(q)'
  <2>1. CASE q = p
    BY <2>1, OwnExitFits
  <2>2. CASE q # p
    BY <1>0, <1>1, <1>2, <2>2, ExitStaysFit
  <2> QED
    BY <2>1, <2>2
<1>6. ASSUME NEW q \in RiskLoops PROVE LoopKnows(q)'
  <2>1. CASE q = p
    <3>1. \A m \in Opened' : Steady(q, m) \/ (Sell(q) /\ m = job[q].mint)
      BY <1>2, <2>1
    <3> QED
      BY <1>3, <2>1, <3>1, OwnViewsCurrent
  <2>2. CASE q # p
    <3>1. \A m \in Opened' : Steady(p, m)
      BY <1>2, <1>6, <2>2
    <3> QED
      BY <1>0, <1>1, <1>3, <1>6, <2>2, <3>1, LoopStaysInformed
  <2> QED
    BY <2>1, <2>2
<1> QED
  BY <1>3, <1>4, <1>5, <1>6 DEF OneLoopInv

\* A step of the monitor.
LEMMA OneLoopMonitor ==
    ASSUME TypeOK, TypeOK', OneLoopInv,
           \/ \E s \in Signals, lot \in Lots : Buy(s, lot)
           \/ \E s \in Signals, type \in {"SIGNAL_REJECTED", "SKIPPED_BY_RPC_ERROR"} :
                 LogSkip(s, type)
    PROVE  OneLoopInv'
<1>0. /\ IdsDiffer /\ ProfitIsNoted /\ TakeProfitOnce /\ PeakOfRemainder
      /\ \A q \in Procs : ExitFits(q)
      /\ \A q \in RiskLoops : LoopKnows(q) /\ q \in Procs
      /\ \A q \in Procs : q # NoExit
  BY ConstantAssumption DEF OneLoopInv, Procs
<1>1. UNCHANGED <<pc, job, todo>>
  BY DEF Buy, LogSkip, procs
<1>2. /\ nextSeq' >= nextSeq
      /\ \E b : \A m \in Opened' : (m = b /\ Fresh(m)) \/ Steady(NoExit, m)
  BY MonitorIsSteady
<1>3. PICK b : \A m \in Opened' : (m = b /\ Fresh(m)) \/ Steady(NoExit, m)
  BY <1>2
<1>4. IdsDiffer' /\ PeakOfRemainder'
  <2>1. OneMoves(NoExit, b)
    BY <1>3 DEF OneMoves
  <2> QED
    BY <1>0, <1>2, <2>1, PositionsStay
<1>5. ProfitIsNoted' /\ TakeProfitOnce'
  <2>1. \A f \in EventSet' : IsSell(f) => f \in EventSet
    BY MonitorSellsNothing
  <2>2. PICK s, e : e = s
    OBVIOUS
  <2>3. ~ (e \in EventSet' /\ e \notin EventSet /\ IsSell(e))
    BY <2>1
  <2> QED
    BY <1>0, <1>2, <1>3, <2>1, <2>3, ProfitStaysNoted
<1>6. ASSUME NEW q \in Procs PROVE ExitFits(q)'
  BY <1>0, <1>1, <1>3, ExitStaysFit
<1>7. ASSUME NEW q \in RiskLoops PROVE LoopKnows(q)'
  BY <1>0, <1>1, <1>2, <1>3, LoopStaysInformed
<1> QED
  BY <1>4, <1>5, <1>6, <1>7 DEF OneLoopInv

\* OneLoopInv is inductive.
LEMMA OneLoopCorrect ==
    ASSUME NEW r, RiskLoops = {r}
    PROVE  Spec => []OneLoopInv
<1>1. Init => OneLoopInv
  <2> SUFFICES ASSUME Init PROVE OneLoopInv
    OBVIOUS
  <2>1. /\ Opened = {} /\ EventSet = {}
        /\ \A p \in Procs : pc[p] = "idle" /\ DOMAIN todo[p] = {}
    BY DEF Init, Opened, EventSet
  <2>2. IdsDiffer /\ ProfitIsNoted /\ TakeProfitOnce /\ PeakOfRemainder
    BY <2>1 DEF IdsDiffer, ProfitIsNoted, TakeProfitOnce, PeakOfRemainder
  <2>3. \A p \in Procs : LoopKnows(p) /\ ExitFits(p)
    BY <2>1 DEF LoopKnows, ExitFits, Deciding
  <2> QED
    BY <2>2, <2>3 DEF OneLoopInv, Procs
<1>2. TypeOK /\ TypeOK' /\ OneLoopInv /\ [Next]_vars => OneLoopInv'
  <2> SUFFICES ASSUME TypeOK, TypeOK', OneLoopInv, [Next]_vars PROVE OneLoopInv'
    OBVIOUS
  <2>1. CASE UNCHANGED vars
    BY <2>1 DEF vars, ledger, procs, OneLoopInv, IdsDiffer, ProfitIsNoted, LoopKnows,
       ViewCurrent, ExitFits, TakeProfitOnce, PeakOfRemainder, EventSet, Opened, HasClaim,
       SamePosition
  <2>2. CASE \/ \E s \in Signals, lot \in Lots : Buy(s, lot)
             \/ \E s \in Signals, type \in {"SIGNAL_REJECTED", "SKIPPED_BY_RPC_ERROR"} :
                   LogSkip(s, type)
    BY <2>2, OneLoopMonitor
  <2>3. ASSUME NEW p \in Procs, ProcessStep(p) PROVE OneLoopInv'
    BY <2>3, OneLoopProcess
  <2> QED
    BY <2>1, <2>2, <2>3 DEF Next, ProcessStep
<1> QED
  BY <1>1, <1>2, TypeCorrect, PTL DEF Spec

\* With one risk loop, as PM2 runs it, no position has more than one take profit
\* in the log: evaluate_paper_position takes its profit on a position it read
\* before the quote and record_paper_sell does not look at tp_done again.
THEOREM OneTakeProfit ==
    ASSUME NEW r, RiskLoops = {r}
    PROVE  Spec => []TakeProfitOnce
<1>1. OneLoopInv => TakeProfitOnce
  BY DEF OneLoopInv
<1> QED
  BY <1>1, OneLoopCorrect, PTL

\* With one risk loop, the peak a trailing stop is measured from is always the
\* value of what a take profit left, at a price that was quoted, or zero before
\* the first quote: the mark of record_position_mark is a quote for the tokens
\* that were read, and the sale of a part starts the peak again.
THEOREM PeaksAreOfRemainder ==
    ASSUME NEW r, RiskLoops = {r}
    PROVE  Spec => []PeakOfRemainder
<1>1. OneLoopInv => PeakOfRemainder
  BY DEF OneLoopInv
<1> QED
  BY <1>1, OneLoopCorrect, PTL
-----------------------------------------------------------------------------
(* The books                                                                 *)

\* Positions keep what they hold and what it cost.
HoldingsStay ==
    /\ Opened' = Opened
    /\ \A m \in Opened : /\ positions'[m].id = positions[m].id
                         /\ positions'[m].amount = positions[m].amount
                         /\ positions'[m].cost = positions[m].cost

LEMMA OneReplacedStays ==
    ASSUME TypeOK, NEW m0 \in Opened, NEW f, positions' = [positions EXCEPT ![m0] = f],
           f.id = positions[m0].id, f.amount = positions[m0].amount, f.cost = positions[m0].cost
    PROVE  HoldingsStay
<1>1. /\ Opened' = Opened /\ positions'[m0] = f
      /\ \A m \in Opened \ {m0} : positions'[m] = positions[m]
  BY DEF Opened, TypeOK, LedgerTypeOK
<1> QED
  BY <1>1 DEF HoldingsStay

\* No step of a process but a sale moves tokens or money.
LEMMA OnlySalesMove ==
    ASSUME TypeOK, NEW p \in Procs, ProcessStep(p), ~ Sell(p)
    PROVE  HoldingsStay /\ UNCHANGED <<cash, events, nextSeq, realized>>
<1>0. UNCHANGED <<cash, events, nextSeq, realized>>
  BY DEF ProcessStep, ProcStep, Poll, Evaluate, QuoteOk, RequoteOk, RecordFailure,
     RequoteFails, Claim, ClaimRefused, SellRefused, Release, CloseExperiment,
     StartManualClose, LockTimesOut, Crash, Abandon, ledger
<1> SUFFICES HoldingsStay
  BY <1>0
<1>1. PICK m0 : m0 = job[p].mint
  OBVIOUS
<1>2. m0 \in Opened => positions[m0] \in Position
  BY DEF TypeOK, LedgerTypeOK
<1>3. CASE positions' = positions
  BY <1>3 DEF HoldingsStay, Opened
<1>4. ASSUME NEW f, ChangePosition(p, f),
             m0 \in Opened =>
                f.id = positions[m0].id /\ f.amount = positions[m0].amount
                /\ f.cost = positions[m0].cost
      PROVE  HoldingsStay
  <2>1. CASE SamePosition(m0, job[p].view.id)
    <3>1. m0 \in Opened /\ positions' = [positions EXCEPT ![m0] = f]
      BY <1>1, <1>4, <2>1 DEF ChangePosition, SamePosition
    <3> QED
      BY <1>4, <3>1, OneReplacedStays
  <2>2. CASE ~ SamePosition(m0, job[p].view.id)
    BY <1>1, <1>3, <1>4, <2>2 DEF ChangePosition
  <2> QED
    BY <2>1, <2>2
<1>5. ASSUME NEW price \in Prices, QuoteOk(p, price) PROVE HoldingsStay
  <2>1. PICK f : /\ f = Marked(positions[m0], price * job[p].view.amount)
                 /\ ChangePosition(p, f)
    BY <1>1, <1>5 DEF QuoteOk
  <2> QED
    BY <1>2, <1>4, <2>1, ValueKept
<1>6. ASSUME NEW gap \in BOOLEAN, RecordFailure(p, gap) PROVE HoldingsStay
  <2>1. PICK f : f = QuoteFailed(positions[m0], gap) /\ ChangePosition(p, f)
    BY <1>1, <1>6 DEF RecordFailure
  <2> QED
    BY <1>2, <1>4, <2>1, ValueKept
<1>7. CASE Claim(p)
  <2>1. PICK f : f = [positions[m0] EXCEPT !.state = "EXIT_PENDING", !.exitId = p]
    OBVIOUS
  <2>2. m0 \in Opened /\ positions' = [positions EXCEPT ![m0] = f]
    BY <1>1, <1>7, <2>1 DEF Claim, MayClaim, SamePosition
  <2>3. f.id = positions[m0].id /\ f.amount = positions[m0].amount /\ f.cost = positions[m0].cost
    BY <1>2, <2>1, <2>2 DEF Position
  <2> QED
    BY <2>2, <2>3, OneReplacedStays
<1>8. CASE Release(p)
  <2>1. PICK f : f = [positions[m0] EXCEPT !.exitId = NoExit,
                        !.state = IF job[p].degraded THEN "DEGRADED" ELSE "NORMAL"]
    OBVIOUS
  <2>2. CASE HasClaim(p)
    <3>1. m0 \in Opened /\ positions' = [positions EXCEPT ![m0] = f]
      BY <1>1, <1>8, <2>1, <2>2 DEF Release, HasClaim, SamePosition
    <3>2. f.id = positions[m0].id /\ f.amount = positions[m0].amount /\ f.cost = positions[m0].cost
      BY <1>2, <2>1, <3>1 DEF Position
    <3> QED
      BY <3>1, <3>2, OneReplacedStays
  <2>3. CASE ~ HasClaim(p)
    BY <1>3, <1>8, <2>3 DEF Release
  <2> QED
    BY <2>2, <2>3
<1> HIDE DEF HoldingsStay
<1> QED
  BY <1>3, <1>5, <1>6, <1>7, <1>8 DEF ProcessStep, ProcStep, Poll, Evaluate, RequoteOk,
     RequoteFails, ClaimRefused, SellRefused, CloseExperiment, StartManualClose,
     LockTimesOut, Crash, Abandon, ledger

\* A sale takes tokens and cost out of one position, of everything if it is the end of it.
LEMMA SaleTakesOut ==
    ASSUME TypeOK, NEW p \in Procs, Sell(p)
    PROVE  LET j    == job[p]
               m    == j.mint
               pos  == positions[m]
           IN  /\ m \in Opened /\ pos \in Position /\ j \in Job
               /\ Sold(pos, j) \in Nat /\ Released(pos, j) \in Nat /\ j.value \in Nat
               /\ \A n \in Opened \ {m} : positions'[n] = positions[n]
               /\ \/ /\ Opened' = Opened
                     /\ positions'[m].id = pos.id
                     /\ positions'[m].amount = pos.amount - Sold(pos, j)
                     /\ positions'[m].cost = pos.cost - Released(pos, j)
                  \/ /\ Opened' = Opened \ {m}
                     /\ Sold(pos, j) = pos.amount /\ Released(pos, j) = pos.cost
<1> DEFINE j   == job[p]
           m   == j.mint
           pos == positions[m]
<1>1. m \in Opened /\ pos \in Position /\ j \in Job
  BY JobType DEF Sell, HasClaim, SamePosition, TypeOK, LedgerTypeOK
<1>2. /\ pos.amount \in Nat \ {0} /\ pos.cost \in Nat \ {0}
      /\ j.amount \in Nat /\ j.value \in Nat
  BY <1>1 DEF Position, Job
<1>3. Sold(pos, j) \in Nat /\ Sold(pos, j) <= pos.amount
  BY <1>2 DEF Sold, MinOf
<1>4. Released(pos, j) \in Nat /\ (Sold(pos, j) = pos.amount => Released(pos, j) = pos.cost)
  BY <1>2, <1>3, ShareOfCost DEF Released
<1>5. /\ AfterSale(pos, j).amount = pos.amount - Sold(pos, j)
      /\ AfterSale(pos, j).cost = pos.cost - Released(pos, j)
      /\ AfterSale(pos, j).id = pos.id
  BY <1>1 DEF AfterSale, Position
<1>6. CASE positions' = [positions EXCEPT ![m] = AfterSale(pos, j)]
  <2>1. /\ Opened' = Opened /\ positions'[m] = AfterSale(pos, j)
        /\ \A n \in Opened \ {m} : positions'[n] = positions[n]
    BY <1>1, <1>6 DEF Opened, TypeOK, LedgerTypeOK
  <2> QED
    BY <1>1, <1>2, <1>3, <1>4, <1>5, <2>1
<1>7. CASE AfterSale(pos, j).amount = 0 /\ positions' = Without(positions, m)
  <2>1. Sold(pos, j) = pos.amount
    BY <1>2, <1>3, <1>5, <1>7
  <2>2. Opened' = Opened \ {m} /\ \A n \in Opened \ {m} : positions'[n] = positions[n]
    BY <1>7 DEF Without, Opened
  <2> QED
    BY <1>1, <1>2, <1>3, <1>4, <2>1, <2>2
<1> QED
  BY <1>6, <1>7 DEF Sell
\* A buy opens one position with its own number.
LEMMA BuyPutsIn ==
    ASSUME TypeOK, NEW s \in Signals, NEW lot \in Lots, Buy(s, lot)
    PROVE  LET m0 == SignalMint[s]
           IN  /\ m0 \notin Opened /\ Opened' = Opened \cup {m0}
               /\ \A m \in Opened : positions'[m] = positions[m]
               /\ positions'[m0].id = nextSeq
               /\ positions'[m0].amount = lot.amount /\ positions'[m0].cost = lot.cost
               /\ lot.amount \in Nat /\ lot.cost \in Nat
<1> DEFINE m0  == SignalMint[s]
           pos == [id |-> nextSeq, signal |-> s, amount |-> lot.amount,
                   cost |-> lot.cost, state |-> "NORMAL", exitId |-> NoExit,
                   tpDone |-> FALSE, peak |-> 0, failures |-> 0]
<1>1. m0 \notin Opened /\ positions' = With(positions, m0, pos)
  BY DEF Buy, MayBuy
<1>2. pos.id = nextSeq /\ pos.amount = lot.amount /\ pos.cost = lot.cost
  OBVIOUS
<1>3. lot.amount \in Nat /\ lot.cost \in Nat
  BY ConstantAssumption
<1> HIDE DEF pos, m0
<1>4. /\ Opened' = Opened \cup {m0} /\ positions'[m0] = pos
      /\ \A m \in Opened : positions'[m] = positions[m]
  BY <1>1 DEF With, Opened
<1> QED
  BY <1>1, <1>2, <1>3, <1>4 DEF m0

\* The inductive invariant behind LedgerReconciles.
BooksInv == IsFiniteSet(Opened) /\ LedgerReconciles

Costs == [m \in Opened |-> positions[m].cost]

\* The cost still invested changes by what a trade pays or releases.
LEMMA BooksStep ==
    ASSUME TypeOK, TypeOK', BooksInv, [Next]_vars
    PROVE  BooksInv'
<1>1. PICK f, g : f = Costs /\ g = Costs'
  OBVIOUS
<1>2. /\ DOMAIN f = Opened /\ DOMAIN g = Opened'
      /\ \A m \in Opened : f[m] = positions[m].cost /\ f[m] \in Int
      /\ \A m \in Opened' : g[m] = positions'[m].cost /\ g[m] \in Int
      /\ cash \in Int /\ cash' \in Int /\ realized \in Int /\ realized' \in Int
      /\ InitialCash \in Int
  BY <1>1, ConstantAssumption DEF Costs, TypeOK, LedgerTypeOK, Position
<1>3. cash + SumFunction(f) = InitialCash + realized /\ IsFiniteSet(DOMAIN f)
  BY <1>1, <1>2 DEF BooksInv, LedgerReconciles, Costs
<1>4. SumFunction(f) \in Int
  BY <1>2, <1>3, TotalType
<1>5. ASSUME IsFiniteSet(Opened'), cash' + SumFunction(g) = InitialCash + realized'
      PROVE  BooksInv'
  BY <1>1, <1>5 DEF BooksInv, LedgerReconciles, Costs
<1>6. ASSUME HoldingsStay, cash' = cash, realized' = realized PROVE BooksInv'
  <2>1. f = g
    BY <1>1, <1>6 DEF Costs, HoldingsStay
  <2>2. Opened' = Opened
    BY <1>6 DEF HoldingsStay
  <2> QED
    BY <1>2, <1>3, <1>5, <1>6, <2>1, <2>2
<1>7. ASSUME NEW s \in Signals, NEW lot \in Lots, Buy(s, lot) PROVE BooksInv'
  <2>1. PICK m0 : m0 = SignalMint[s]
    OBVIOUS
  <2>2. /\ m0 \notin Opened /\ Opened' = Opened \cup {m0}
        /\ \A m \in Opened : positions'[m] = positions[m]
        /\ positions'[m0].cost = lot.cost /\ lot.cost \in Nat
    BY <1>7, <2>1, BuyPutsIn
  <2>3. cash' = cash - lot.cost /\ realized' = realized
    BY <1>7 DEF Buy
  <2>4. SumFunction(g) = SumFunction(f) + g[m0]
    BY <1>2, <1>3, <2>2, TotalWithOneMore
  <2>5. IsFiniteSet(Opened')
    BY <1>2, <1>3, <2>2, FS_AddElement
  <2>6. g[m0] = lot.cost
    BY <1>2, <2>2
  <2> QED
    BY <1>2, <1>3, <1>4, <1>5, <2>2, <2>3, <2>4, <2>5, <2>6
<1>8. ASSUME NEW p \in Procs, Sell(p) PROVE BooksInv'
  <2>1. PICK j, m, pos : j = job[p] /\ m = job[p].mint /\ pos = positions[job[p].mint]
    OBVIOUS
  <2>2. /\ m \in Opened /\ pos \in Position /\ j \in Job /\ pos = positions[m]
        /\ Released(pos, j) \in Nat /\ j.value \in Nat
        /\ \A n \in Opened \ {m} : positions'[n] = positions[n]
        /\ \/ Opened' = Opened /\ positions'[m].cost = pos.cost - Released(pos, j)
           \/ Opened' = Opened \ {m} /\ Released(pos, j) = pos.cost
    BY <1>8, <2>1, SaleTakesOut
  <2>3. cash' = cash + j.value /\ realized' = realized + (j.value - Released(pos, j))
    BY <1>8, <2>1 DEF Sell, Pnl
  <2>4. PICK r \in Nat : r = Released(pos, j)
    BY <2>2
  <2>5. SumFunction(g) = SumFunction(f) - r /\ IsFiniteSet(Opened')
    <3>1. CASE Opened' = Opened /\ positions'[m].cost = pos.cost - r
      <4>1. SumFunction(g) = SumFunction(f) - f[m] + g[m]
        BY <1>2, <1>3, <2>2, <3>1, TotalWithOther
      <4>2. f[m] = pos.cost /\ g[m] = f[m] - r /\ f[m] \in Int
        BY <1>2, <2>2, <3>1
      <4> QED
        BY <1>2, <1>3, <1>4, <2>4, <3>1, <4>1, <4>2
    <3>2. CASE Opened' = Opened \ {m} /\ r = pos.cost
      <4>1. SumFunction(g) = SumFunction(f) - f[m]
        BY <1>2, <1>3, <2>2, <3>2, TotalWithOneLess
      <4>2. f[m] = r
        BY <1>2, <2>2, <3>2
      <4>3. IsFiniteSet(Opened')
        BY <1>2, <1>3, <3>2, FS_RemoveElement
      <4> QED
        BY <4>1, <4>2, <4>3
    <3> QED
      BY <2>2, <2>4, <3>1, <3>2
  <2>6. PICK c \in Int, v \in Int : c = SumFunction(f) /\ v = j.value
    BY <1>4, <2>2
  <2>7. /\ cash + c = InitialCash + realized
        /\ cash' = cash + v /\ realized' = realized + (v - r) /\ SumFunction(g) = c - r
    BY <1>3, <2>3, <2>4, <2>5, <2>6
  <2>8. cash' + SumFunction(g) = InitialCash + realized'
    BY <1>2, <2>7
  <2> QED
    BY <1>5, <2>5, <2>8
<1>9. ASSUME NEW p \in Procs, ProcessStep(p), ~ Sell(p) PROVE BooksInv'
  BY <1>6, <1>9, OnlySalesMove
<1>10. CASE \E s \in Signals, type \in {"SIGNAL_REJECTED", "SKIPPED_BY_RPC_ERROR"} :
               LogSkip(s, type)
  <2>1. UNCHANGED <<cash, positions, realized>>
    BY <1>10 DEF LogSkip
  <2> QED
    BY <1>6, <2>1 DEF HoldingsStay, Opened
<1>11. CASE UNCHANGED vars
  <2>1. UNCHANGED <<cash, positions, realized>>
    BY <1>11 DEF vars, ledger
  <2> QED
    BY <1>6, <2>1 DEF HoldingsStay, Opened
<1> QED
  BY <1>7, <1>8, <1>9, <1>10, <1>11 DEF Next, ProcessStep

\* What test_cost_basis_accounting_invariant asks after one sequence of trades, after every
\* one: cash and the cost of what is open are the initial cash and the profit that was
\* realized, whatever shares of a cost are rounded and whichever sales are refused.
THEOREM BooksReconcile == Spec => []LedgerReconciles
<1>1. Init => BooksInv
  <2> SUFFICES ASSUME Init PROVE BooksInv
    OBVIOUS
  <2>1. Opened = {} /\ cash = InitialCash /\ realized = 0
    BY DEF Init, Opened
  <2>2. IsFiniteSet(Opened)
    BY <2>1, FS_EmptySet
  <2>3. DOMAIN Costs = {} /\ SumFunction(Costs) = 0
    BY <2>1, TotalOfNothing DEF Costs
  <2> QED
    BY <2>1, <2>2, <2>3, ConstantAssumption DEF BooksInv, LedgerReconciles, Costs
<1>2. TypeOK /\ TypeOK' /\ BooksInv /\ [Next]_vars => BooksInv'
  BY BooksStep
<1>3. BooksInv => LedgerReconciles
  BY DEF BooksInv
<1> QED
  BY <1>1, <1>2, <1>3, TypeCorrect, PTL DEF Spec
-----------------------------------------------------------------------------
(* The events of a position                                                  *)

Held(b) == IF SamePosition(b.mint, b.seq) THEN positions[b.mint].amount ELSE 0
Left(b) == IF SamePosition(b.mint, b.seq) THEN positions[b.mint].cost ELSE 0
TokensSold(b) == SumFunction([e \in SellsOf(b.seq) |-> e.sold])
CostSold(b)   == SumFunction([e \in SellsOf(b.seq) |-> e.proceeds - e.pnl])
Accounted(b)  == TokensSold(b) + Held(b) = b.amount /\ CostSold(b) + Left(b) = b.cost

\* The inductive invariant behind RoundTripAccounted.  A sale is younger than the buy it
\* sells of, so a log that has the buy has all of its sales.
TripInv ==
    /\ \A m \in Opened : positions[m].id < nextSeq
    /\ \A e \in EventSet : e.seq < nextSeq /\ (IsSell(e) => e.id < e.seq)
    /\ \A b \in EventSet : IsBuy(b) => \A m \in Opened : positions[m].id = b.seq => m = b.mint
    /\ \A b \in EventSet : IsBuy(b) => Accounted(b)

LEMMA EventType ==
    ASSUME TypeOK
    PROVE  /\ nextSeq \in Nat /\ IsFiniteSet(EventSet) /\ events \in Seq(Event)
           /\ \A e \in EventSet : e \in Event /\ e.seq \in Nat
           /\ \A e \in EventSet : IsSell(e) =>
                 e.id \in Nat /\ e.sold \in Nat /\ e.proceeds - e.pnl \in Int
           /\ \A e \in EventSet : IsBuy(e) => e.amount \in Nat /\ e.cost \in Nat
           /\ \A m \in Opened : positions[m].id \in Nat
<1>1. events \in Seq(Event) /\ nextSeq \in Nat /\ \A m \in Opened : positions[m].id \in Nat
  BY DEF TypeOK, LedgerTypeOK, Position
<1>2. \A e \in EventSet : e \in Event
  BY <1>1 DEF EventSet
<1>3. \A e \in Event : /\ e.seq \in Nat
                       /\ IsSell(e) => e.id \in Nat /\ e.sold \in Nat /\ e.proceeds \in Nat /\ e.pnl \in Int
                       /\ IsBuy(e) => e.amount \in Nat /\ e.cost \in Nat
  BY DEF Event, BuyEvent, SellEvent, SkipEvent, IsSell, IsBuy
<1>4. IsFiniteSet(EventSet)
  <2>1. Len(events) \in Nat /\ DOMAIN events = 1 .. Len(events)
    BY <1>1, LenProperties
  <2>2. IsFiniteSet(1 .. Len(events))
    BY <2>1, FS_Interval
  <2>3. events \in Surjection(1 .. Len(events), EventSet)
    BY <1>1, <2>1 DEF EventSet, Surjection
  <2> QED
    BY <2>2, <2>3, FS_Surjection
<1> QED
  BY <1>1, <1>2, <1>3, <1>4

\* An account is as it was if its sales and its position are.
LEMMA AccountStays ==
    ASSUME NEW b, Accounted(b), SellsOf(b.seq)' = SellsOf(b.seq),
           Held(b)' = Held(b), Left(b)' = Left(b)
    PROVE  Accounted(b)'
  BY DEF Accounted, TokensSold, CostSold

LEMMA HoldingsKeepAccounts ==
    ASSUME HoldingsStay, NEW b
    PROVE  Held(b)' = Held(b) /\ Left(b)' = Left(b)
  BY DEF HoldingsStay, Held, Left, SamePosition

\* A step that changes no holding and adds no buy and no sale.
LEMMA TripStays ==
    ASSUME TypeOK, TypeOK', TripInv, HoldingsStay, nextSeq' >= nextSeq,
           \A f \in EventSet' : f \in EventSet \/ (f.seq < nextSeq' /\ ~ IsSell(f) /\ ~ IsBuy(f)),
           \A f \in EventSet : f \in EventSet' \/ \A g \in EventSet' : f.seq < g.seq
    PROVE  TripInv'
<1>1. \A m \in Opened' : positions'[m].id < nextSeq'
  BY EventType DEF HoldingsStay, TripInv, TypeOK, LedgerTypeOK
<1>2. \A e \in EventSet' : e.seq < nextSeq' /\ (IsSell(e) => e.id < e.seq)
  BY EventType DEF TripInv, TypeOK, LedgerTypeOK
<1>3. \A b \in EventSet' : IsBuy(b) => \A m \in Opened' : positions'[m].id = b.seq => m = b.mint
  BY DEF TripInv, HoldingsStay
<1>4. ASSUME NEW b \in EventSet', IsBuy(b) PROVE Accounted(b)'
  <2>1. b \in EventSet /\ Accounted(b) /\ b.seq \in Nat
    BY <1>4, EventType DEF TripInv
  <2>2. ASSUME NEW e \in SellsOf(b.seq) PROVE e \in EventSet'
    <3>1. e \in EventSet /\ b.seq < e.seq /\ e.seq \in Nat
      BY <2>2, EventType DEF SellsOf, TripInv
    <3>2. ~ (e.seq < b.seq)
      BY <2>1, <3>1
    <3> QED
      BY <1>4, <3>1, <3>2
  <2>3. SellsOf(b.seq)' = SellsOf(b.seq)
    BY <2>2 DEF SellsOf
  <2> QED
    BY <2>1, <2>3, AccountStays, HoldingsKeepAccounts
<1> QED
  BY <1>1, <1>2, <1>3, <1>4 DEF TripInv

LEMMA OneMoreEvent ==
    ASSUME TypeOK, NEW e, events' = Append(events, e)
    PROVE  EventSet' = EventSet \cup {e}
<1>1. events \in Seq(Event) /\ Len(events) \in Nat
  BY LenProperties DEF TypeOK, LedgerTypeOK
<1>2. /\ Len(events') = Len(events) + 1
      /\ \A i \in 1 .. Len(events) : events'[i] = events[i]
      /\ events'[Len(events) + 1] = e
  BY <1>1
<1>3. 1 .. Len(events) + 1 = (1 .. Len(events)) \cup {Len(events) + 1}
  BY <1>1
<1> QED
  BY <1>2, <1>3 DEF EventSet
\* A buy opens an account, of which nothing is sold yet.
LEMMA TripBuy ==
    ASSUME TypeOK, TypeOK', TripInv, NEW s \in Signals, NEW lot \in Lots, Buy(s, lot)
    PROVE  TripInv'
<1>1. PICK m0, e : /\ m0 = SignalMint[s]
                   /\ e = [type |-> "BUY", seq |-> nextSeq, mint |-> SignalMint[s], signal |-> s,
                           cost |-> lot.cost, amount |-> lot.amount]
  OBVIOUS
<1>2. /\ m0 \notin Opened /\ Opened' = Opened \cup {m0}
      /\ \A m \in Opened : positions'[m] = positions[m]
      /\ positions'[m0].id = nextSeq
      /\ positions'[m0].amount = lot.amount /\ positions'[m0].cost = lot.cost
      /\ lot.amount \in Nat /\ lot.cost \in Nat
  BY <1>1, BuyPutsIn
<1>3. /\ e.seq = nextSeq /\ e.mint = m0 /\ e.cost = lot.cost /\ e.amount = lot.amount
      /\ IsBuy(e) /\ ~ IsSell(e)
  BY <1>1 DEF IsBuy, IsSell
<1>4. EventSet' = EventSet \cup {e} /\ nextSeq' = nextSeq + 1
  <2>1. events' = Append(events, e) /\ nextSeq' = nextSeq + 1
    BY <1>1 DEF Buy
  <2> QED
    BY <2>1, OneMoreEvent
<1>5. /\ nextSeq \in Nat
      /\ \A m \in Opened : positions[m].id \in Nat /\ positions[m].id < nextSeq
      /\ \A f \in EventSet : f.seq \in Nat /\ f.seq < nextSeq
      /\ \A f \in EventSet : IsSell(f) => f.id \in Nat /\ f.id < f.seq
  BY EventType DEF TripInv
<1>6. \A m \in Opened' : positions'[m].id < nextSeq'
  BY <1>2, <1>4, <1>5
<1>7. \A f \in EventSet' : f.seq < nextSeq' /\ (IsSell(f) => f.id < f.seq)
  BY <1>3, <1>4, <1>5
<1>8. \A b \in EventSet' : IsBuy(b) => \A m \in Opened' : positions'[m].id = b.seq => m = b.mint
  BY <1>2, <1>3, <1>4, <1>5 DEF TripInv
<1>9. ASSUME NEW b \in EventSet', IsBuy(b) PROVE Accounted(b)'
  <2>1. CASE b \in EventSet
    <3>1. Accounted(b)
      BY <1>9, <2>1 DEF TripInv
    <3>2. SellsOf(b.seq)' = SellsOf(b.seq)
      BY <1>3, <1>4 DEF SellsOf
    <3>3. Held(b)' = Held(b) /\ Left(b)' = Left(b)
      BY <1>2, <1>5, <2>1 DEF Held, Left, SamePosition
    <3> QED
      BY <3>1, <3>2, <3>3, AccountStays
  <2>2. CASE b = e
    <3>1. SellsOf(b.seq)' = {}
      BY <1>3, <1>4, <1>5, <2>2 DEF SellsOf
    <3>2. TokensSold(b)' = 0 /\ CostSold(b)' = 0
      BY <3>1, TotalOfNothing DEF TokensSold, CostSold
    <3>3. Held(b)' = b.amount /\ Left(b)' = b.cost
      BY <1>2, <1>3, <2>2 DEF Held, Left, SamePosition
    <3>4. b.amount \in Nat /\ b.cost \in Nat
      BY <1>2, <1>3, <2>2
    <3> QED
      BY <3>2, <3>3, <3>4 DEF Accounted
  <2> QED
    BY <1>4, <2>1, <2>2
<1> QED
  BY <1>6, <1>7, <1>8, <1>9 DEF TripInv

\* A sale adds to what was sold what it takes out of the position.
LEMMA TripSale ==
    ASSUME TypeOK, TypeOK', TripInv, NEW p \in Procs, Sell(p)
    PROVE  TripInv'
<1>1. PICK j, m, pos, e :
         /\ j = job[p] /\ m = job[p].mint /\ pos = positions[job[p].mint]
         /\ e = [type |-> "SELL", seq |-> nextSeq, mint |-> m, id |-> pos.id,
                 signal |-> pos.signal, reason |-> j.reason, sold |-> Sold(pos, j),
                 proceeds |-> j.value, pnl |-> Pnl(pos, j)]
  OBVIOUS
<1>2. PICK q \in Nat, r \in Nat : q = Sold(pos, j) /\ r = Released(pos, j)
  BY <1>1, SaleTakesOut
<1>3. /\ m \in Opened /\ pos = positions[m] /\ j.value \in Nat
      /\ \A n \in Opened \ {m} : positions'[n] = positions[n]
      /\ \/ /\ Opened' = Opened
            /\ positions'[m].id = pos.id
            /\ positions'[m].amount = pos.amount - q
            /\ positions'[m].cost = pos.cost - r
         \/ /\ Opened' = Opened \ {m} /\ q = pos.amount /\ r = pos.cost
      /\ pos.amount \in Nat /\ pos.cost \in Nat /\ pos.id \in Nat
  <2>1. pos \in Position
    BY <1>1, SaleTakesOut
  <2>2. pos.amount \in Nat /\ pos.cost \in Nat /\ pos.id \in Nat
    BY <2>1 DEF Position
  <2> QED
    BY <1>1, <1>2, <2>2, SaleTakesOut
<1>4. /\ e.seq = nextSeq /\ e.id = pos.id /\ e.sold = q /\ e.proceeds - e.pnl = r
      /\ IsSell(e) /\ ~ IsBuy(e)
  <2>1. /\ e.seq = nextSeq /\ e.id = pos.id /\ e.sold = q /\ IsSell(e) /\ ~ IsBuy(e)
        /\ e.proceeds = j.value /\ e.pnl = j.value - r
    BY <1>1, <1>2 DEF IsBuy, IsSell, Pnl
  <2> QED
    BY <1>3, <2>1
<1>5. EventSet' = EventSet \cup {e} /\ nextSeq' = nextSeq + 1
  <2>1. events' = Append(events, e) /\ nextSeq' = nextSeq + 1
    BY <1>1 DEF Sell
  <2> QED
    BY <2>1, OneMoreEvent
<1>6. /\ nextSeq \in Nat
      /\ \A n \in Opened : positions[n].id \in Nat /\ positions[n].id < nextSeq
      /\ \A f \in EventSet : f.seq \in Nat /\ f.seq < nextSeq
      /\ \A f \in EventSet : IsSell(f) => f.id \in Nat /\ f.id < f.seq
  BY EventType DEF TripInv
<1>7. \A n \in Opened' : positions'[n].id = positions[n].id /\ n \in Opened
  BY <1>3
<1>8. /\ \A n \in Opened' : positions'[n].id < nextSeq'
      /\ \A f \in EventSet' : f.seq < nextSeq' /\ (IsSell(f) => f.id < f.seq)
      /\ \A b \in EventSet' : IsBuy(b) => \A n \in Opened' : positions'[n].id = b.seq => n = b.mint
  <2>1. \A n \in Opened' : positions'[n].id < nextSeq'
    BY <1>5, <1>6, <1>7
  <2>2. \A f \in EventSet' : f.seq < nextSeq' /\ (IsSell(f) => f.id < f.seq)
    BY <1>3, <1>4, <1>5, <1>6
  <2>3. \A b \in EventSet' : IsBuy(b) => \A n \in Opened' : positions'[n].id = b.seq => n = b.mint
    BY <1>4, <1>5, <1>7 DEF TripInv
  <2> QED
    BY <2>1, <2>2, <2>3
<1>9. ASSUME NEW b \in EventSet', IsBuy(b) PROVE Accounted(b)'
  <2>1. b \in EventSet /\ Accounted(b)
    BY <1>4, <1>5, <1>9 DEF TripInv
  <2>2. CASE b.seq # pos.id
    <3>1. SellsOf(b.seq)' = SellsOf(b.seq)
      BY <1>4, <1>5, <2>2 DEF SellsOf
    <3>2. Held(b)' = Held(b) /\ Left(b)' = Left(b)
      BY <1>3, <1>7, <2>2 DEF Held, Left, SamePosition
    <3> QED
      BY <2>1, <3>1, <3>2, AccountStays
  <2>3. CASE b.seq = pos.id
    <3>1. b.mint = m
      BY <1>3, <1>9, <2>1, <2>3 DEF TripInv
    <3>2. Held(b) = pos.amount /\ Left(b) = pos.cost
      BY <1>3, <2>3, <3>1 DEF Held, Left, SamePosition
    <3>3. Held(b)' = pos.amount - q /\ Left(b)' = pos.cost - r
      BY <1>3, <2>3, <3>1 DEF Held, Left, SamePosition
    <3>4. PICK S : S = SellsOf(b.seq)
      OBVIOUS
    <3>5. SellsOf(b.seq)' = S \cup {e} /\ e \notin S /\ IsFiniteSet(S)
      <4>1. SellsOf(b.seq)' = S \cup {e} /\ e \notin S /\ S \subseteq EventSet
        BY <1>4, <1>5, <1>6, <2>3, <3>4 DEF SellsOf
      <4> QED
        BY <4>1, EventType, FS_Subset
    <3>6. \A f \in S : f.sold \in Int /\ f.proceeds - f.pnl \in Int
      BY <3>4, EventType DEF SellsOf
    <3>7. PICK t : t \in Int /\ TokensSold(b) = t /\ TokensSold(b)' = t + q
      <4>1. PICK g, h : /\ g = [f \in S |-> f.sold]
                        /\ h = [f \in S \cup {e} |-> f.sold]
        OBVIOUS
      <4>2. /\ DOMAIN g = S /\ DOMAIN h = S \cup {e} /\ h[e] = q
            /\ \A f \in S : g[f] = h[f] /\ g[f] \in Int
        BY <1>4, <3>6, <4>1
      <4>3. h[e] \in Int
        BY <1>2, <4>2
      <4>4. SumFunction(h) = SumFunction(g) + h[e]
        BY <3>5, <4>2, <4>3, TotalWithOneMore
      <4>5. SumFunction(g) \in Int
        BY <3>5, <4>2, TotalType
      <4>6. TokensSold(b) = SumFunction(g)
        BY <3>4, <4>1 DEF TokensSold
      <4>7. TokensSold(b)' = SumFunction(h)
        BY <3>5, <4>1 DEF TokensSold
      <4> QED
        BY <4>2, <4>4, <4>5, <4>6, <4>7
    <3>8. PICK c : c \in Int /\ CostSold(b) = c /\ CostSold(b)' = c + r
      <4>1. PICK g, h : /\ g = [f \in S |-> f.proceeds - f.pnl]
                        /\ h = [f \in S \cup {e} |-> f.proceeds - f.pnl]
        OBVIOUS
      <4>2. /\ DOMAIN g = S /\ DOMAIN h = S \cup {e} /\ h[e] = r
            /\ \A f \in S : g[f] = h[f] /\ g[f] \in Int
        BY <1>4, <3>6, <4>1
      <4>3. h[e] \in Int
        BY <1>2, <4>2
      <4>4. SumFunction(h) = SumFunction(g) + h[e]
        BY <3>5, <4>2, <4>3, TotalWithOneMore
      <4>5. SumFunction(g) \in Int
        BY <3>5, <4>2, TotalType
      <4>6. CostSold(b) = SumFunction(g)
        BY <3>4, <4>1 DEF CostSold
      <4>7. CostSold(b)' = SumFunction(h)
        BY <3>5, <4>1 DEF CostSold
      <4> QED
        BY <4>2, <4>4, <4>5, <4>6, <4>7
    <3>9. t + pos.amount = b.amount /\ c + pos.cost = b.cost
      BY <2>1, <3>2, <3>7, <3>8 DEF Accounted
    <3>10. /\ (t + q) + (pos.amount - q) = b.amount
           /\ (c + r) + (pos.cost - r) = b.cost
      BY <1>2, <1>3, <3>7, <3>8, <3>9
    <3> QED
      BY <3>3, <3>7, <3>8, <3>10 DEF Accounted
  <2> QED
    BY <2>2, <2>3
<1> QED
  BY <1>8, <1>9 DEF TripInv

\* While the BUY of a position is in the log, its SELLs and what is left add up to what was
\* bought, in tokens and in cost: record_paper_sell, refused or repeated, sells nothing twice,
\* and a log that is trimmed keeps the sales of every buy it keeps.
THEOREM RoundTripsAddUp == Spec => []RoundTripAccounted
<1>1. Init => TripInv /\ LogInv
  <2> SUFFICES ASSUME Init PROVE TripInv /\ LogInv
    OBVIOUS
  <2>1. Opened = {} /\ EventSet = {}
    BY DEF Init, Opened, EventSet
  <2>2. LogInv
    BY DEF Init, LogInv, Rising
  <2> QED
    BY <2>1, <2>2 DEF TripInv
<1>2. TypeOK /\ TypeOK' /\ TripInv /\ LogInv /\ [Next]_vars => TripInv' /\ LogInv'
  <2> SUFFICES ASSUME TypeOK, TypeOK', TripInv, LogInv, [Next]_vars PROVE TripInv' /\ LogInv'
    OBVIOUS
  <2>1. /\ LogInv'
        /\ \A f \in EventSet : f \in EventSet' \/ \A g \in EventSet' : f.seq < g.seq
    BY LogStep
  <2>2. ASSUME HoldingsStay, events' = events, nextSeq' = nextSeq PROVE TripInv'
    <3>1. EventSet' = EventSet /\ nextSeq' >= nextSeq
      BY <2>2, EventType DEF EventSet
    <3> QED
      BY <2>1, <2>2, <3>1, TripStays
  <2>3. ASSUME NEW s \in Signals, NEW type \in {"SIGNAL_REJECTED", "SKIPPED_BY_RPC_ERROR"},
               LogSkip(s, type)
        PROVE  TripInv'
    <3>1. PICK e : e = [type |-> type, seq |-> nextSeq, mint |-> SignalMint[s], signal |-> s]
      OBVIOUS
    <3>2. e \in Event /\ ~ IsSell(e) /\ ~ IsBuy(e) /\ e.seq = nextSeq
      BY <3>1, EventType, ConstantAssumption DEF Event, SkipEvent, IsSell, IsBuy
    <3>3. /\ events' = LastOf(Append(events, e), MaxEvents) /\ nextSeq' = nextSeq + 1
          /\ positions' = positions
      BY <2>3, <3>1 DEF LogSkip
    <3>4. \A f \in EventSet' : f = e \/ f \in EventSet
      BY <3>2, <3>3, EventsAfter
    <3>5. HoldingsStay /\ nextSeq' >= nextSeq /\ e.seq < nextSeq'
      BY <3>2, <3>3, EventType DEF HoldingsStay, Opened
    <3> QED
      BY <2>1, <3>2, <3>4, <3>5, TripStays
  <2>4. ASSUME NEW p \in Procs, ProcessStep(p) PROVE TripInv'
    <3>1. CASE Sell(p)
      BY <3>1, TripSale
    <3>2. CASE ~ Sell(p)
      BY <2>2, <2>4, <3>2, OnlySalesMove
    <3> QED
      BY <3>1, <3>2
  <2>5. CASE UNCHANGED vars
    <3>1. positions' = positions /\ events' = events /\ nextSeq' = nextSeq
      BY <2>5 DEF vars, ledger
    <3>2. HoldingsStay
      BY <3>1 DEF HoldingsStay, Opened
    <3> QED
      BY <2>1, <2>2, <3>1, <3>2
  <2> QED
    BY <2>1, <2>3, <2>4, <2>5, TripBuy DEF Next, ProcessStep
<1>3. TripInv => RoundTripAccounted
  BY DEF TripInv, RoundTripAccounted, Accounted, TokensSold, CostSold, Held, Left
<1> QED
  BY <1>1, <1>2, <1>3, TypeCorrect, PTL DEF Spec
=============================================================================
