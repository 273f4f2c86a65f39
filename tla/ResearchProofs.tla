--------------------------- MODULE ResearchProofs ---------------------------
(***************************************************************************)
(* The theorems about two parts of src/research.                           *)
(*                                                                         *)
(* The shadow observer (n3_shadow.py): what it finds when it starts again  *)
(* never contradicts what it writes, and its final report is of the cohort *)
(* that the ledger has.  The argument is about prefixes of the ledger's    *)
(* events.  Once every event up to n has been handled (its entry or its    *)
(* sell is on file, where one is due), nothing that is counted of the      *)
(* first n events changes any more, whoever runs: neither the entries, nor *)
(* the sells, nor the completed trades, nor whether a cap was reached.  So *)
(* a pass that starts again from what was saved counts what was saved, and *)
(* closes the cohort where the pass that died would have.                  *)
(*                                                                         *)
(* The coverage counters (coverage_telemetry.py): no event is lost or      *)
(* counted twice.  The argument is about what a document of buckets stands *)
(* for, a sum over its stages and keys.  Merging two documents adds what   *)
(* they stand for, at every time that the limits do not forget, and they   *)
(* forget none that is retained; so each step of a flush only moves counts *)
(* between the process, the flush and the document.                        *)
(***************************************************************************)
EXTENDS N3Observer, CoverageTelemetry, FiniteSetTheorems, SumTheorems

Events == [type: {"BUY", "SELL"}, entry: Entries]
BuyOf(p)  == [type |-> "BUY", entry |-> p]
SellOf(p) == [type |-> "SELL", entry |-> p]
ObserverPC == {"idle", "events", "advance", "complete", "report", "gap", "blocked"}

ObserverTypes ==
    /\ log \in Seq(Events) /\ entered \in [Entries -> SkipValues \cup {Absent}]
    /\ closure \in 0..Len(log) /\ saved.cursor \in 0..Len(log)
    /\ observer \in [pc: ObserverPC, cursor: 0..Len(log), upto: 0..Len(log)]

Bought(p, i) == i \in 1..Len(log) /\ log[i] = BuyOf(p)

\* The ledger: a position is bought once, and sold afterwards.
OneBuy       == \A p \in Entries, i \in 1..Len(log), j \in 1..Len(log):
                   Bought(p, i) /\ Bought(p, j) => i = j
BuyThenSells == \A p \in Entries, j \in 1..Len(log):
                   log[j] = SellOf(p) => \E i \in 1..Len(log): i < j /\ Bought(p, i)

\* Only what was bought after the registration is entered.
EnteredIsBought ==
    \A p \in Entries: entered[p] # Absent => p \notin Early /\ \E i \in 1..Len(log): Bought(p, i)

\* Nothing is left to do for an event, for the first n.
Handled(j) ==
    LET p == log[j].entry
    IN  /\ log[j].type = "BUY" /\ p \notin Early => entered[p] # Absent
        /\ log[j].type = "SELL" /\ entered[p] # Absent => j \in sold
HandledUpTo(n) == \A j \in 1..n: Handled(j)

\* A cap was reached with an event (CapReached).
CapAt(j) ==
    \/ Cardinality({Day[p] : p \in {q \in Admitted: BuySeq(q) <= j}}) >= DayCap
    \/ /\ log[j].type = "SELL" /\ entered[log[j].entry] # Absent
       /\ Cardinality(CohortTrades(j)) >= TradeCap

Running == observer.pc \in {"events", "advance", "complete", "report"}

\* The passes of the observer have gone through a prefix of the events.
CursorsAreHandled ==
    /\ HandledUpTo(saved.cursor) /\ HandledUpTo(observer.cursor) /\ HandledUpTo(closure)
    /\ Running => saved.cursor <= observer.cursor /\ closure <= observer.upto
    /\ closure # 0 => saved.cursor <= closure /\ observer.cursor <= closure
\* An entry is written in its turn.
EnteredInTurn ==
    \A p \in Entries, k \in 1..Len(log): entered[p] # Absent /\ Bought(p, k) =>
        /\ HandledUpTo(k - 1)
        /\ Running => k <= observer.upto
        /\ closure # 0 => k <= closure
\* As long as the cohort is open, no event but the last one has reached a cap.
OpenBelowCap ==
    closure = 0 =>
        /\ \A j \in 1..saved.cursor: ~CapAt(j)
        /\ \A j \in 1..observer.cursor: ~CapAt(j)
        /\ \A p \in Entries, k \in 1..Len(log): entered[p] # Absent /\ Bought(p, k) =>
              \A j \in 1..(k - 1): ~CapAt(j)
SavedIsCounted == Consistent
\* Where the pass is.
PassIsWhere ==
    /\ observer.pc = "advance" => MoreEvents /\ Handled(NextSeq)
    /\ observer.pc \in {"complete", "report"} =>
          /\ closure # 0 => observer.cursor = closure
          /\ \A p \in Entries, k \in 1..Len(log):
                entered[p] # Absent /\ Bought(p, k) => k <= observer.cursor
    /\ observer.pc = "report" => closure # 0
    /\ Running => report = Absent
    /\ observer.pc # "blocked"
ReportIsClosed == report # Absent => closure # 0 /\ report.end \in 0..Len(log)

ObserverInv ==
    /\ ObserverTypes /\ OneBuy /\ BuyThenSells /\ EnteredIsBought
    /\ CursorsAreHandled /\ EnteredInTurn /\ OpenBelowCap /\ SavedIsCounted
    /\ PassIsWhere /\ ReportIsClosed /\ ReportIsOfTheCohort
ObserverBase == ObserverTypes /\ OneBuy /\ BuyThenSells /\ EnteredIsBought

-----------------------------------------------------------------------------
(* The ledger's events                                                     *)

LEMMA LogIs ==
    ASSUME ObserverTypes
    PROVE  /\ Len(log) \in Nat /\ DOMAIN log = 1..Len(log)
           /\ \A i \in 1..Len(log): /\ log[i] \in Events
                                    /\ log[i].type \in {"BUY", "SELL"} /\ log[i].entry \in Entries
                                    /\ log[i].type = "BUY" => Bought(log[i].entry, i)
                                    /\ log[i].type = "SELL" => log[i] = SellOf(log[i].entry)
<1>1. log \in Seq(Events)
    BY DEF ObserverTypes
<1>2. Len(log) \in Nat /\ DOMAIN log = 1..Len(log) /\ \A i \in 1..Len(log): log[i] \in Events
    BY <1>1
<1>3. ASSUME NEW i \in 1..Len(log)
      PROVE  /\ log[i].type \in {"BUY", "SELL"} /\ log[i].entry \in Entries
             /\ log[i].type = "BUY" => Bought(log[i].entry, i)
             /\ log[i].type = "SELL" => log[i] = SellOf(log[i].entry)
    <2>1. log[i] \in Events
        BY <1>2
    <2>. QED BY <2>1 DEF Events, Bought, BuyOf, SellOf
<1>. QED BY <1>2, <1>3

\* The event that a position was bought with, before and after a step.
LEMMA BuySeqIs ==
    \A p \in Entries:
       /\ ObserverTypes /\ OneBuy => \A i \in 1..Len(log): Bought(p, i) => BuySeq(p) = i
       /\ ObserverTypes' /\ OneBuy' => \A i \in 1..Len(log'): Bought(p, i)' => BuySeq(p)' = i
<1>. SUFFICES ASSUME NEW p \in Entries
              PROVE  /\ ObserverTypes /\ OneBuy =>
                         \A i \in 1..Len(log): Bought(p, i) => BuySeq(p) = i
                     /\ ObserverTypes' /\ OneBuy' =>
                         \A i \in 1..Len(log'): Bought(p, i)' => BuySeq(p)' = i
    OBVIOUS
<1>. DEFINE Is(l, j) == l[j] = [type |-> "BUY", entry |-> p]
<1>1. ASSUME NEW l, DOMAIN l = 1..Len(l), NEW i \in 1..Len(l), Is(l, i),
             \A j \in 1..Len(l): Is(l, j) => j = i
      PROVE  (CHOOSE j \in DOMAIN l: Is(l, j)) = i
    <2>. HIDE DEF Is
    <2>. QED BY <1>1
<1>2. ASSUME ObserverTypes, OneBuy, NEW i \in 1..Len(log), Bought(p, i)
      PROVE  BuySeq(p) = i
    <2>1. DOMAIN log = 1..Len(log)
        BY <1>2 DEF ObserverTypes
    <2>2. Is(log, i) /\ \A j \in 1..Len(log): Is(log, j) => j = i
        BY <1>2 DEF OneBuy, Bought, BuyOf
    <2>. HIDE DEF Is
    <2>3. (CHOOSE j \in DOMAIN log: Is(log, j)) = i
        BY <1>1, <2>1, <2>2
    <2>. QED BY <2>3 DEF BuySeq, Is
<1>3. ASSUME ObserverTypes', OneBuy', NEW i \in 1..Len(log'), Bought(p, i)'
      PROVE  BuySeq(p)' = i
    <2>1. DOMAIN log' = 1..Len(log')
        BY <1>3 DEF ObserverTypes
    <2>2. Is(log', i) /\ \A j \in 1..Len(log'): Is(log', j) => j = i
        BY <1>3 DEF OneBuy, Bought, BuyOf
    <2>. HIDE DEF Is
    <2>3. (CHOOSE j \in DOMAIN log': Is(log', j)) = i
        BY <1>1, <2>1, <2>2
    <2>. QED BY <2>3 DEF BuySeq, Is
<1>. QED BY <1>2, <1>3

LEMMA CountIs ==
    ASSUME ObserverTypes, NEW p \in Entries
    PROVE  /\ Count("BUY", p) = 0 => \A i \in 1..Len(log): ~Bought(p, i)
           /\ Count("BUY", p) = 1 => \E i \in 1..Len(log): Bought(p, i)
<1>. DEFINE S == {i \in 1..Len(log): Bought(p, i)}
<1>1. Len(log) \in Nat /\ DOMAIN log = 1..Len(log)
    BY LogIs
<1>2. Count("BUY", p) = Cardinality(S)
    BY <1>1 DEF Count, Bought, BuyOf
<1>3. IsFiniteSet(1..Len(log))
    BY <1>1, FS_Interval
<1>4. IsFiniteSet(S)
    BY <1>3, FS_Subset
<1>5. Cardinality(S) = 0 <=> S = {}
    BY <1>4, FS_EmptySet
<1>. QED BY <1>2, <1>5

-----------------------------------------------------------------------------
(* What is handled stays as it is                                          *)

\* The ledger and the files only grow; a sell is filed for an entry that is on file.
OnlyGrow ==
    /\ Len(log) <= Len(log') /\ \A i \in 1..Len(log): log'[i] = log[i]
    /\ \A p \in Entries: entered[p] # Absent => entered'[p] # Absent
    /\ sold \subseteq sold'
    /\ \A i \in sold' \ sold: /\ i \in 1..Len(log) /\ log[i].type = "SELL"
                              /\ entered[log[i].entry] # Absent

AdmittedBy(j) == {p \in Admitted: BuySeq(p) <= j}
SoldBy(j)     == {i \in sold: i <= j}

\* What is counted of the first n events does not change.
SameUpTo(n) ==
    /\ HandledUpTo(n)'
    /\ \A j \in 0..n: /\ AdmittedBy(j)' = AdmittedBy(j) /\ SoldBy(j)' = SoldBy(j)
                      /\ CohortTrades(j)' = CohortTrades(j)
    /\ \A j \in 1..n: CapAt(j)' <=> CapAt(j)

LEMMA PrefixStays ==
    ASSUME ObserverBase, ObserverBase', OnlyGrow, NEW n \in 0..Len(log), HandledUpTo(n)
    PROVE  SameUpTo(n)
<1>. USE DEF ObserverBase
<1>1. /\ Len(log) \in Nat /\ Len(log') \in Nat /\ DOMAIN log = 1..Len(log)
      /\ DOMAIN log' = 1..Len(log')
    <2>1. log' \in Seq(Events)
        BY DEF ObserverTypes
    <2>. QED BY <2>1, LogIs
<1>0. ObserverTypes /\ OneBuy /\ ObserverTypes' /\ OneBuy'
    OBVIOUS
<1>2. \A i \in 1..n: i \in 1..Len(log) /\ i \in 1..Len(log') /\ log'[i] = log[i] /\ Handled(i)
    BY <1>1 DEF OnlyGrow, HandledUpTo
<1>3. ASSUME NEW p \in Entries, NEW k \in 1..n
      PROVE  Bought(p, k)' <=> Bought(p, k)
    BY <1>2 DEF Bought, BuyOf
\* An entry whose event is among the first n is no new one.
<1>4. ASSUME NEW p \in Entries, NEW k \in 1..n, Bought(p, k), entered'[p] # Absent
      PROVE  entered[p] # Absent
    <2>1. p \notin Early
        BY <1>4 DEF EnteredIsBought
    <2>2. Handled(k) /\ log[k].type = "BUY" /\ log[k].entry = p
        BY <1>2, <1>4 DEF Bought, BuyOf
    <2>. QED BY <2>1, <2>2 DEF Handled
<1>5. ASSUME NEW j \in 0..n
      PROVE  AdmittedBy(j)' = AdmittedBy(j)
    <2>1. ASSUME NEW p \in Entries, entered[p] # Absent, BuySeq(p) <= j
          PROVE  entered'[p] # Absent /\ BuySeq(p)' <= j
        <3>1. PICK k \in 1..Len(log): Bought(p, k)
            BY <2>1 DEF EnteredIsBought
        <3>2. BuySeq(p) = k
            BY <1>0, <3>1, BuySeqIs, Zenon
        <3>3. k \in 1..n
            BY <1>1, <2>1, <3>2
        <3>4. k \in 1..Len(log') /\ Bought(p, k)'
            BY <1>2, <1>3, <3>1, <3>3
        <3>5. BuySeq(p)' = k
            BY <1>0, <3>4, BuySeqIs, Zenon
        <3>. QED BY <2>1, <3>2, <3>5 DEF OnlyGrow
    <2>2. ASSUME NEW p \in Entries, entered'[p] # Absent, BuySeq(p)' <= j
          PROVE  entered[p] # Absent /\ BuySeq(p) <= j
        <3>1. PICK k \in 1..Len(log'): Bought(p, k)'
            BY <2>2 DEF EnteredIsBought
        <3>2. BuySeq(p)' = k
            BY <1>0, <3>1, BuySeqIs, Zenon
        <3>3. k \in 1..n
            BY <1>1, <2>2, <3>2
        <3>4. k \in 1..Len(log) /\ Bought(p, k)
            BY <1>2, <1>3, <3>1, <3>3
        <3>5. BuySeq(p) = k
            BY <1>0, <3>4, BuySeqIs, Zenon
        <3>. QED BY <1>4, <2>2, <3>2, <3>3, <3>4, <3>5
    <2>3. AdmittedBy(j) = {p \in Entries: entered[p] # Absent /\ BuySeq(p) <= j}
        BY DEF AdmittedBy, Admitted
    <2>4. AdmittedBy(j)' = {p \in Entries: entered'[p] # Absent /\ BuySeq(p)' <= j}
        BY DEF AdmittedBy, Admitted
    <2>. QED BY <2>1, <2>2, <2>3, <2>4
<1>6. ASSUME NEW j \in 0..n
      PROVE  SoldBy(j)' = SoldBy(j)
    <2>1. ASSUME NEW i \in sold', i <= j PROVE i \in sold
        <3>1. CASE i \notin sold
            <4>1. i \in 1..Len(log) /\ log[i].type = "SELL" /\ entered[log[i].entry] # Absent
                BY <3>1 DEF OnlyGrow
            <4>2. i \in 1..n
                BY <1>1, <2>1, <4>1
            <4>. QED BY <1>2, <4>1, <4>2 DEF Handled
        <3>. QED BY <3>1
    <2>2. sold \subseteq sold'
        BY DEF OnlyGrow
    <2>. QED BY <2>1, <2>2 DEF SoldBy
\* A sell among the first n of an entry that is on file now was one before.
<1>7. ASSUME NEW j \in 1..n, log[j].type = "SELL"
      PROVE  entered'[log[j].entry] # Absent <=> entered[log[j].entry] # Absent
    <2>. DEFINE p == log[j].entry
    <2>1. j \in 1..Len(log) /\ p \in Entries /\ log[j] = SellOf(p)
        BY <1>2, <1>7, LogIs
    <2>2. PICK i \in 1..Len(log): i < j /\ Bought(p, i)
        BY <2>1 DEF BuyThenSells
    <2>3. i \in 1..n
        BY <1>1, <2>2
    <2>. HIDE DEF p
    <2>4. entered'[p] # Absent => entered[p] # Absent
        BY <1>4, <2>1, <2>2, <2>3
    <2>5. entered[p] # Absent => entered'[p] # Absent
        BY <2>1 DEF OnlyGrow
    <2>. QED BY <2>4, <2>5 DEF p
<1>8. ASSUME NEW j \in 0..n
      PROVE  CohortTrades(j)' = CohortTrades(j)
    <2>. DEFINE legs(p) == {i \in SellSeqs(p): i <= j /\ i \in sold}
    <2>1. ASSUME NEW p \in Entries PROVE legs(p)' = legs(p)
        <3>1. SoldBy(j)' = SoldBy(j)
            BY <1>5, <1>6
        <3>2. \A i \in 1..n: i \in SellSeqs(p)' <=> i \in SellSeqs(p)
            BY <1>1, <1>2 DEF SellSeqs
        <3>3. \A i \in SellSeqs(p): i <= j => i \in 1..n
            BY <1>1 DEF SellSeqs
        <3>4. \A i \in SellSeqs(p)': i <= j => i \in 1..n
            BY <1>1 DEF SellSeqs
        <3>. QED BY <3>1, <3>2, <3>3, <3>4 DEF SoldBy
    <2>2. CohortTrades(j) = {p \in Entries: p \in AdmittedBy(j) /\ Cardinality(legs(p)) = Legs}
        BY DEF CohortTrades, AdmittedBy, Admitted
    <2>3. CohortTrades(j)' = {p \in Entries: p \in AdmittedBy(j)' /\ Cardinality(legs(p)') = Legs}
        BY DEF CohortTrades, AdmittedBy, Admitted, Legs
    <2>4. AdmittedBy(j)' = AdmittedBy(j)
        BY <1>5
    <2>. HIDE DEF legs
    <2>. QED BY <2>1, <2>2, <2>3, <2>4
<1>9. ASSUME NEW j \in 1..n
      PROVE  CapAt(j)' <=> CapAt(j)
    <2>1. AdmittedBy(j)' = AdmittedBy(j) /\ CohortTrades(j)' = CohortTrades(j)
        BY <1>1, <1>5, <1>8
    <2>2. log'[j] = log[j]
        BY <1>2
    <2>. DEFINE days == Cardinality({Day[p] : p \in AdmittedBy(j)}) >= DayCap
                trades == Cardinality(CohortTrades(j)) >= TradeCap
                sell == log[j].type = "SELL" /\ entered[log[j].entry] # Absent
    <2>3. (days' <=> days) /\ (trades' <=> trades)
        BY <2>1
    <2>4. sell' <=> sell
        BY <1>7, <2>2
    <2>5. CapAt(j) <=> days \/ (sell /\ trades)
        BY DEF CapAt, AdmittedBy
    <2>6. CapAt(j)' <=> days' \/ (sell' /\ trades')
        BY DEF CapAt, AdmittedBy
    <2>. HIDE DEF days, trades, sell
    <2>. QED BY <2>3, <2>4, <2>5, <2>6
<1>10. HandledUpTo(n)'
    <2>1. ASSUME NEW j \in 1..n PROVE Handled(j)'
        <3>1. /\ Handled(j) /\ log'[j] = log[j] /\ log[j].entry \in Entries
            BY <1>2, LogIs
        <3>2. log[j].type = "BUY" /\ log[j].entry \notin Early => entered'[log[j].entry] # Absent
            BY <3>1 DEF Handled, OnlyGrow
        <3>3. log[j].type = "SELL" /\ entered'[log[j].entry] # Absent => j \in sold'
            BY <1>7, <3>1 DEF Handled, OnlyGrow
        <3>. QED BY <3>1, <3>2, <3>3 DEF Handled
    <2>. QED BY <2>1 DEF HandledUpTo
<1>. QED BY <1>5, <1>6, <1>8, <1>9, <1>10 DEF SameUpTo

-----------------------------------------------------------------------------
(* Every step only adds to the ledger and to the files                     *)

\* A step of the observer, or of nobody, that writes neither entries nor sells.
LEMMA Quiet_Base ==
    ASSUME ObserverBase, UNCHANGED <<log, entered, sold>>,
           closure' \in 0..Len(log), saved'.cursor \in 0..Len(log),
           observer' \in [pc: ObserverPC, cursor: 0..Len(log), upto: 0..Len(log)]
    PROVE  ObserverBase' /\ OnlyGrow
<1>1. ObserverTypes'
    BY DEF ObserverBase, ObserverTypes
<1>2. OneBuy' /\ BuyThenSells' /\ EnteredIsBought'
    BY DEF ObserverBase, OneBuy, BuyThenSells, EnteredIsBought, Bought, BuyOf, SellOf
<1>3. OnlyGrow
    BY LogIs DEF ObserverBase, OnlyGrow
<1>. QED BY <1>1, <1>2, <1>3 DEF ObserverBase

LEMMA Appended ==
    ASSUME ObserverTypes, NEW e \in Events, log' = Append(log, e)
    PROVE  /\ log' \in Seq(Events) /\ Len(log') = Len(log) + 1 /\ Len(log) \in Nat
           /\ log'[Len(log) + 1] = e
           /\ \A i \in 1..Len(log): log'[i] = log[i]
           /\ \A i \in 1..Len(log'): i \in 1..Len(log) \/ i = Len(log) + 1
BY DEF ObserverTypes

\* The ledger grows.
LEMMA Ledger_Base ==
    ASSUME ObserverBase, UNCHANGED <<n3Files, observer>>, NEW p \in Entries,
           \/ log' = Append(log, BuyOf(p)) /\ \A i \in 1..Len(log): ~Bought(p, i)
           \/ log' = Append(log, SellOf(p)) /\ \E i \in 1..Len(log): Bought(p, i)
    PROVE  ObserverBase' /\ OnlyGrow
<1>1. ObserverTypes /\ OneBuy /\ BuyThenSells /\ EnteredIsBought
    BY DEF ObserverBase
<1>0. PICK m \in Nat: m = Len(log) + 1
    BY <1>1, LogIs
<1>2. BuyOf(p) \in Events /\ SellOf(p) \in Events
    BY DEF BuyOf, SellOf, Events
<1>3. /\ log' \in Seq(Events) /\ Len(log') = m /\ Len(log) \in Nat
      /\ \A i \in 1..Len(log): log'[i] = log[i]
      /\ \A i \in 1..Len(log'): i \in 1..Len(log) \/ i = m
      /\ \/ log'[m] = BuyOf(p) /\ \A i \in 1..Len(log): ~Bought(p, i)
         \/ log'[m] = SellOf(p) /\ \E i \in 1..Len(log): Bought(p, i)
    BY <1>0, <1>1, <1>2, Appended
<1>4. /\ \A i \in 1..Len(log): i < m /\ i \in 1..Len(log')
      /\ m \in 1..Len(log') /\ m \in Nat
    BY <1>0, <1>3
<1>5. UNCHANGED <<entered, sold, closure, saved, observer>>
    BY DEF n3Files
<1>6. ObserverTypes'
    <2>1. 0..Len(log) \subseteq 0..Len(log')
        BY <1>3, <1>4
    <2>2. observer \in [pc: ObserverPC, cursor: 0..Len(log), upto: 0..Len(log)]
        BY <1>1 DEF ObserverTypes
    <2>3. observer' \in [pc: ObserverPC, cursor: 0..Len(log'), upto: 0..Len(log')]
        BY <1>5, <2>1, <2>2
    <2>. QED BY <1>1, <1>3, <1>5, <2>1, <2>3 DEF ObserverTypes
<1>7. ASSUME NEW q \in Entries, NEW i \in 1..Len(log)
      PROVE  /\ Bought(q, i)' <=> Bought(q, i)
             /\ log'[i] = SellOf(q) <=> log[i] = SellOf(q)
    BY <1>3, <1>4 DEF Bought, BuyOf
<1>8. ASSUME NEW q \in Entries
      PROVE  /\ Bought(q, m)' => q = p /\ \A i \in 1..Len(log): ~Bought(q, i)
             /\ log'[m] = SellOf(q) => \E i \in 1..Len(log): Bought(q, i)
    <2>1. BuyOf(p) # SellOf(q) /\ SellOf(p) # BuyOf(q)
          /\ (BuyOf(p) = BuyOf(q) => p = q) /\ (SellOf(p) = SellOf(q) => p = q)
        BY DEF BuyOf, SellOf
    <2>2. Bought(q, m)' <=> log'[m] = BuyOf(q)
        BY <1>4 DEF Bought, BuyOf
    <2>. QED BY <1>3, <2>1, <2>2
<1>9. OneBuy'
    <2>1. ASSUME NEW q \in Entries, NEW i \in 1..Len(log'), NEW j \in 1..Len(log'),
                 Bought(q, i)', Bought(q, j)'
          PROVE  i = j
        <3>1. CASE i \in 1..Len(log) /\ j \in 1..Len(log)
            BY <1>1, <1>7, <2>1, <3>1 DEF OneBuy
        <3>2. CASE i = m /\ j \in 1..Len(log)
            BY <1>7, <1>8, <2>1, <3>2
        <3>3. CASE j = m /\ i \in 1..Len(log)
            BY <1>7, <1>8, <2>1, <3>3
        <3>. QED BY <1>3, <3>1, <3>2, <3>3
    <2>. QED BY <2>1 DEF OneBuy
<1>10. BuyThenSells'
    <2>1. ASSUME NEW q \in Entries, NEW j \in 1..Len(log'), log'[j] = SellOf(q)
          PROVE  \E i \in 1..Len(log'): i < j /\ Bought(q, i)'
        <3>1. PICK i \in 1..Len(log): i < j /\ Bought(q, i)
            <4>1. CASE j \in 1..Len(log)
                BY <1>1, <1>7, <2>1, <4>1 DEF BuyThenSells
            <4>2. CASE j = m
                BY <1>4, <1>8, <2>1, <4>2
            <4>. QED BY <1>3, <4>1, <4>2
        <3>. QED BY <1>4, <1>7, <3>1
    <2>. QED BY <2>1 DEF BuyThenSells, SellOf
<1>11. EnteredIsBought'
    <2>1. ASSUME NEW q \in Entries, entered[q] # Absent
          PROVE  q \notin Early /\ \E i \in 1..Len(log'): Bought(q, i)'
        <3>1. PICK i \in 1..Len(log): Bought(q, i)
            BY <1>1, <2>1 DEF EnteredIsBought
        <3>. QED BY <1>1, <1>4, <1>7, <2>1, <3>1 DEF EnteredIsBought
    <2>. QED BY <1>5, <2>1 DEF EnteredIsBought
<1>12. OnlyGrow
    BY <1>3, <1>4, <1>5 DEF OnlyGrow
<1>. QED BY <1>6, <1>9, <1>10, <1>11, <1>12 DEF ObserverBase
\* The event that a pass is about to handle.
LEMMA NextIs ==
    ASSUME ObserverBase, MoreEvents
    PROVE  /\ NextSeq \in 1..Len(log) /\ NextSeq = observer.cursor + 1 /\ observer.cursor \in Nat
           /\ Subject \in Entries /\ Event.type \in {"BUY", "SELL"} /\ Event = log[NextSeq]
           /\ Event.type = "BUY" => Bought(Subject, NextSeq)
           /\ closure # 0 => NextSeq <= closure
           /\ NextSeq <= observer.upto
<1>1. /\ observer.cursor \in 0..Len(log) /\ observer.upto \in 0..Len(log) /\ Len(log) \in Nat
      /\ NextSeq <= observer.upto /\ (closure # 0 => NextSeq <= closure)
    BY LogIs DEF ObserverBase, ObserverTypes, MoreEvents
<1>2. NextSeq \in 1..Len(log) /\ NextSeq = observer.cursor + 1 /\ observer.cursor \in Nat
    BY <1>1 DEF NextSeq
<1>. QED BY <1>1, <1>2, LogIs DEF ObserverBase, Event, Subject

\* An observer that moves on.
LEMMA MovesOn ==
    ASSUME ObserverBase, NEW pc \in ObserverPC
    PROVE  [observer EXCEPT !.pc = pc] \in [pc: ObserverPC, cursor: 0..Len(log), upto: 0..Len(log)]
BY DEF ObserverBase, ObserverTypes

LEMMA Admit_Base ==
    ASSUME ObserverBase, Admit
    PROVE  /\ ObserverBase' /\ OnlyGrow
           /\ observer' = [observer EXCEPT !.pc = "advance"]
           /\ entered'[Subject] # Absent
           /\ \A p \in Entries: p # Subject => entered'[p] = entered[p]
<1>. DEFINE skip == SnapshotOf(Subject)
<1>1. MoreEvents /\ Enrolled(Subject) /\ UNCHANGED <<log, sold, closure, saved>>
    BY DEF Admit, control
<1>2. /\ Subject \in Entries /\ NextSeq \in 1..Len(log) /\ Bought(Subject, NextSeq)
      /\ Subject \notin Early
    BY <1>1, NextIs DEF Enrolled
<1>3. entered \in [Entries -> SkipValues \cup {Absent}]
    BY DEF ObserverBase, ObserverTypes
<1>4. skip \in SkipValues /\ entered[Subject] \in {Absent, skip}
    BY <1>2, <1>3 DEF SnapshotOf, SkipValues
<1>5. /\ entered' = [entered EXCEPT ![Subject] = skip]
      /\ observer' = [observer EXCEPT !.pc = "advance"]
    BY <1>4 DEF Admit
<1>6. skip # Absent
    BY <1>4, N3Assumption DEF SkipValues
<1>. HIDE DEF skip
<1>7. /\ entered' \in [Entries -> SkipValues \cup {Absent}]
      /\ \A p \in Entries: entered'[p] = IF p = Subject THEN skip ELSE entered[p]
    BY <1>2, <1>3, <1>4, <1>5
<1>8. observer' \in [pc: ObserverPC, cursor: 0..Len(log), upto: 0..Len(log)]
    BY <1>5, MovesOn DEF ObserverPC
<1>9. ObserverTypes'
    BY <1>1, <1>7, <1>8 DEF ObserverBase, ObserverTypes
<1>10. OneBuy' /\ BuyThenSells'
    BY <1>1 DEF ObserverBase, OneBuy, BuyThenSells, Bought, BuyOf, SellOf
<1>11. EnteredIsBought'
    <2>1. ASSUME NEW p \in Entries, entered'[p] # Absent
          PROVE  p \notin Early /\ \E i \in 1..Len(log): Bought(p, i)
        BY <1>2, <1>7, <2>1 DEF ObserverBase, EnteredIsBought
    <2>2. \A p \in Entries, i \in 1..Len(log): Bought(p, i) => Bought(p, i)' /\ i \in 1..Len(log')
        BY <1>1 DEF Bought, BuyOf
    <2>3. \A p \in Entries: entered'[p] # Absent => p \notin Early /\ \E i \in 1..Len(log'): Bought(p, i)'
        BY <2>1, <2>2
    <2>. QED BY <2>3 DEF EnteredIsBought
<1>12. OnlyGrow
    <2>1. Len(log) <= Len(log)
        BY LogIs DEF ObserverBase
    <2>. QED BY <1>1, <1>6, <1>7, <2>1 DEF OnlyGrow
<1>. QED BY <1>2, <1>5, <1>6, <1>7, <1>9, <1>10, <1>11, <1>12 DEF ObserverBase

LEMMA RecordSell_Base ==
    ASSUME ObserverBase, RecordSell
    PROVE  /\ ObserverBase' /\ OnlyGrow /\ NextSeq \in sold'
           /\ observer' = [observer EXCEPT !.pc = "advance"]
<1>1. /\ MoreEvents /\ UNCHANGED <<log, entered, closure, saved>>
      /\ Event.type = "SELL" /\ entered[Subject] # Absent /\ sold' = sold \cup {NextSeq}
      /\ observer' = [observer EXCEPT !.pc = "advance"]
    BY DEF RecordSell, control
<1>2. NextSeq \in 1..Len(log) /\ Event = log[NextSeq] /\ Subject = log[NextSeq].entry
    BY <1>1, NextIs DEF Subject
<1>3. observer' \in [pc: ObserverPC, cursor: 0..Len(log), upto: 0..Len(log)]
    BY <1>1, MovesOn DEF ObserverPC
<1>4. ObserverTypes'
    BY <1>1, <1>3 DEF ObserverBase, ObserverTypes
<1>5. OneBuy' /\ BuyThenSells' /\ EnteredIsBought'
    BY <1>1 DEF ObserverBase, OneBuy, BuyThenSells, EnteredIsBought, Bought, BuyOf, SellOf
<1>6. OnlyGrow
    <2>1. Len(log) <= Len(log)
        BY LogIs DEF ObserverBase
    <2>. QED BY <1>1, <1>2, <2>1 DEF OnlyGrow
<1>. QED BY <1>1, <1>4, <1>5, <1>6 DEF ObserverBase

\* The trading process and its recorder.
Trading ==
    \/ \E p \in Entries: BuyEntry(p) \/ SellHalf(p)
    \/ \E p \in Entries: SubmitControlEntry(p) \/ PersistCapture(p) \/ GraceEnds(p)
    \/ RecorderDies

LEMMA Trading_Base ==
    ASSUME ObserverBase, Trading
    PROVE  ObserverBase' /\ OnlyGrow /\ UNCHANGED <<n3Files, observer>>
<1>1. ASSUME NEW p \in Entries, BuyEntry(p)
      PROVE  ObserverBase' /\ OnlyGrow /\ UNCHANGED <<n3Files, observer>>
    <2>1. /\ UNCHANGED <<n3Files, observer>> /\ log' = Append(log, BuyOf(p))
          /\ \A i \in 1..Len(log): ~Bought(p, i)
        BY <1>1, CountIs DEF BuyEntry, BuyOf, ObserverBase
    <2>. QED BY <2>1, Ledger_Base
<1>2. ASSUME NEW p \in Entries, SellHalf(p)
      PROVE  ObserverBase' /\ OnlyGrow /\ UNCHANGED <<n3Files, observer>>
    <2>1. /\ UNCHANGED <<n3Files, observer>> /\ log' = Append(log, SellOf(p))
          /\ \E i \in 1..Len(log): Bought(p, i)
        BY <1>2, CountIs DEF SellHalf, SellOf, ObserverBase
    <2>. QED BY <2>1, Ledger_Base
<1>3. ASSUME \/ \E p \in Entries: SubmitControlEntry(p) \/ PersistCapture(p) \/ GraceEnds(p)
             \/ RecorderDies
      PROVE  ObserverBase' /\ OnlyGrow /\ UNCHANGED <<n3Files, observer>>
    <2>1. UNCHANGED <<log, n3Files, observer>>
        BY <1>3 DEF SubmitControlEntry, PersistCapture, GraceEnds, RecorderDies
    <2>2. /\ UNCHANGED <<log, entered, sold>> /\ closure' \in 0..Len(log)
          /\ saved'.cursor \in 0..Len(log)
          /\ observer' \in [pc: ObserverPC, cursor: 0..Len(log), upto: 0..Len(log)]
        BY <2>1 DEF n3Files, ObserverBase, ObserverTypes
    <2>. QED BY <2>1, <2>2, Quiet_Base
<1>. QED BY <1>1, <1>2, <1>3 DEF Trading

-----------------------------------------------------------------------------
(* What every step carries over                                            *)

Carried ==
    /\ ObserverBase /\ ObserverBase' /\ OnlyGrow
    /\ CursorsAreHandled /\ EnteredInTurn /\ OpenBelowCap

LEMMA HandledStays ==
    ASSUME Carried
    PROVE  \A n \in 0..Len(log): HandledUpTo(n) =>
              /\ HandledUpTo(n)' /\ \A j \in 1..n: CapAt(j)' <=> CapAt(j)
              /\ \A j \in 0..n: /\ AdmittedBy(j)' = AdmittedBy(j) /\ SoldBy(j)' = SoldBy(j)
                                /\ CohortTrades(j)' = CohortTrades(j)
BY PrefixStays DEF Carried, SameUpTo

LEMMA CursorsStay ==
    ASSUME Carried
    PROVE  \A n \in {0, saved.cursor, observer.cursor, closure}:
              /\ n \in 0..Len(log) /\ HandledUpTo(n) /\ HandledUpTo(n)'
              /\ closure = 0 => \A j \in 1..n: ~CapAt(j)'
<1>1. ASSUME NEW n \in {0, saved.cursor, observer.cursor, closure}
      PROVE  n \in 0..Len(log) /\ HandledUpTo(n) /\ (closure = 0 => \A j \in 1..n: ~CapAt(j))
    <2>0. Len(log) \in Nat
        BY LogIs DEF Carried, ObserverBase
    <2>1. n \in 0..Len(log)
        BY <2>0 DEF Carried, ObserverBase, ObserverTypes
    <2>2. HandledUpTo(n)
        BY DEF Carried, CursorsAreHandled, HandledUpTo
    <2>3. \A j \in 1..0: FALSE
        OBVIOUS
    <2>4. closure = 0 => \A j \in 1..n: ~CapAt(j)
        BY <2>3 DEF Carried, OpenBelowCap
    <2>. QED BY <2>1, <2>2, <2>4
<1>2. ASSUME NEW n \in {0, saved.cursor, observer.cursor, closure}
      PROVE  HandledUpTo(n)' /\ (closure = 0 => \A j \in 1..n: ~CapAt(j)')
    BY <1>1, HandledStays
<1>. QED BY <1>1, <1>2

\* An entry that was on file was bought where it was bought.
LEMMA EnteredStays ==
    ASSUME Carried, NEW p \in Entries, entered[p] # Absent, NEW k \in 1..Len(log'), Bought(p, k)'
    PROVE  /\ k \in 1..Len(log) /\ Bought(p, k) /\ HandledUpTo(k - 1)'
           /\ closure = 0 => \A j \in 1..(k - 1): ~CapAt(j)'
           /\ closure # 0 => k <= closure
           /\ Running => k <= observer.upto
<1>1. PICK i \in 1..Len(log): Bought(p, i)
    BY DEF Carried, ObserverBase, EnteredIsBought
<1>2. Len(log) \in Nat /\ Len(log') \in Nat
    <2>1. log' \in Seq(Events)
        BY DEF Carried, ObserverBase, ObserverTypes
    <2>. QED BY <2>1, LogIs DEF Carried, ObserverBase
<1>3. i \in 1..Len(log') /\ Bought(p, i)'
    BY <1>1, <1>2 DEF Carried, OnlyGrow, Bought, BuyOf
<1>4. k = i
    BY <1>3 DEF Carried, ObserverBase, OneBuy
<1>5. k - 1 \in 0..Len(log) /\ k \in 1..Len(log) /\ Bought(p, k)
    BY <1>1, <1>2, <1>4
<1>6. /\ HandledUpTo(k - 1)
      /\ closure = 0 => \A j \in 1..(k - 1): ~CapAt(j)
      /\ closure # 0 => k <= closure
      /\ Running => k <= observer.upto
    BY <1>5 DEF Carried, EnteredInTurn, OpenBelowCap
<1>7. HandledUpTo(k - 1)' /\ \A j \in 1..(k - 1): CapAt(j)' <=> CapAt(j)
    BY <1>5, <1>6, HandledStays
<1>. QED BY <1>5, <1>6, <1>7

LEMMA CountsStay ==
    ASSUME Carried, SavedIsCounted, UNCHANGED saved
    PROVE  SavedIsCounted'
<1>. DEFINE n == saved.cursor
<1>1. n \in 0..Len(log) /\ HandledUpTo(n)
    BY CursorsStay
<1>2. n \in 0..n
    BY <1>1, LogIs DEF Carried, ObserverBase
<1>3. /\ AdmittedBy(n)' = AdmittedBy(n) /\ SoldBy(n)' = SoldBy(n)
      /\ CohortTrades(n)' = CohortTrades(n)
    <2>1. PICK m : m = n
        OBVIOUS
    <2>2. AdmittedBy(m)' = AdmittedBy(m) /\ SoldBy(m)' = SoldBy(m) /\ CohortTrades(m)' = CohortTrades(m)
        BY <1>1, <1>2, <2>1, HandledStays
    <2>3. m = n' /\ m = n
        BY <2>1
    <2>. HIDE DEF n
    <2>. QED BY <2>2, <2>3 DEF AdmittedBy, SoldBy, CohortTrades
<1>4. SavedIsCounted <=> /\ Cardinality(AdmittedBy(n)) = saved.admitted
                         /\ Cardinality(SoldBy(n)) = saved.sells
                         /\ Cardinality(CohortTrades(n)) = saved.completed
    BY DEF SavedIsCounted, Consistent, AdmittedBy, SoldBy
<1>5. SavedIsCounted' <=> /\ Cardinality(AdmittedBy(n)') = saved.admitted
                          /\ Cardinality(SoldBy(n)') = saved.sells
                          /\ Cardinality(CohortTrades(n)') = saved.completed
    BY DEF SavedIsCounted, Consistent, AdmittedBy, SoldBy
<1>. HIDE DEF n
<1>. QED BY <1>3, <1>4, <1>5

LEMMA ReportStays ==
    ASSUME Carried, ReportIsClosed, ReportIsOfTheCohort, UNCHANGED report,
           closure # 0 => closure' # 0
    PROVE  ReportIsClosed' /\ ReportIsOfTheCohort'
<1>. SUFFICES ASSUME report # Absent
              PROVE  ReportIsClosed' /\ ReportIsOfTheCohort'
    BY DEF ReportIsClosed, ReportIsOfTheCohort
<1>1. report.end \in 0..Len(log) /\ closure # 0
    BY DEF ReportIsClosed
<1>2. Len(log) \in Nat /\ Len(log') \in Nat /\ DOMAIN log = 1..Len(log) /\ DOMAIN log' = 1..Len(log')
    <2>1. log' \in Seq(Events)
        BY DEF Carried, ObserverBase, ObserverTypes
    <2>. QED BY <2>1, LogIs DEF Carried, ObserverBase
<1>3. Len(log) <= Len(log') /\ \A i \in 1..Len(log): log'[i] = log[i]
    BY DEF Carried, OnlyGrow
<1>4. PICK e \in 0..Len(log): e = report.end
    BY <1>1
<1>5. \A i \in 1..e: i \in 1..Len(log) /\ i \in 1..Len(log') /\ log'[i] = log[i]
    BY <1>2, <1>3, <1>4
<1>. DEFINE cohort == {p \in Entries \ Early: \E i \in 1..e: log[i] = [type |-> "BUY", entry |-> p]}
            legs(p) == {i \in SellSeqs(p): i <= e}
            ended == {p \in cohort: Cardinality(legs(p)) = Legs}
<1>6. cohort' = cohort
    BY <1>5
<1>7. ASSUME NEW p PROVE legs(p)' = legs(p)
    BY <1>2, <1>5 DEF SellSeqs
<1>8. ended' = ended
    <2>. HIDE DEF cohort, legs
    <2>. QED BY <1>6, <1>7 DEF Legs
<1>9. ReportIsOfTheCohort <=> report.trades = ended /\ report.censored = cohort \ ended
    BY <1>4 DEF ReportIsOfTheCohort
<1>10. ReportIsOfTheCohort' <=> report.trades = ended' /\ report.censored = cohort' \ ended'
    BY <1>4 DEF ReportIsOfTheCohort, Legs
<1>11. ReportIsClosed'
    BY <1>1, <1>2, <1>3 DEF ReportIsClosed
<1>. HIDE DEF ended, cohort
<1>. QED BY <1>6, <1>8, <1>9, <1>10, <1>11
\* A step that writes no entry and no closure.
LEMMA TurnsStay ==
    ASSUME Carried, UNCHANGED <<entered, closure>>,
           observer'.cursor \in {0, saved.cursor, observer.cursor},
           saved'.cursor \in {saved.cursor, observer.cursor},
           Running' => /\ saved'.cursor <= observer'.cursor /\ closure <= observer'.upto
                       /\ \/ Running /\ observer'.upto = observer.upto
                          \/ observer'.upto = Len(log)
    PROVE  CursorsAreHandled' /\ EnteredInTurn' /\ OpenBelowCap'
<1>1. \A n \in {0, saved.cursor, observer.cursor, closure}:
         HandledUpTo(n)' /\ (closure = 0 => \A j \in 1..n: ~CapAt(j)')
    BY CursorsStay
<1>2. CursorsAreHandled'
    <2>1. PICK a, b, c: a = saved'.cursor /\ b = observer'.cursor /\ c = closure'
        OBVIOUS
    <2>2. HandledUpTo(a)' /\ HandledUpTo(b)' /\ HandledUpTo(c)'
        BY <1>1, <2>1
    <2>3. HandledUpTo(saved.cursor)' /\ HandledUpTo(observer.cursor)' /\ HandledUpTo(closure)'
        BY <2>1, <2>2 DEF HandledUpTo
    <2>4. closure # 0 => 0 <= closure /\ saved.cursor <= closure /\ observer.cursor <= closure
        BY LogIs DEF Carried, CursorsAreHandled, ObserverBase, ObserverTypes
    <2>. QED BY <2>3, <2>4 DEF CursorsAreHandled
<1>3. EnteredInTurn'
    <2>1. ASSUME NEW p \in Entries, entered[p] # Absent, NEW k \in 1..Len(log'), Bought(p, k)'
          PROVE  HandledUpTo(k - 1)' /\ (Running' => k <= observer'.upto) /\ (closure # 0 => k <= closure)
        <3>1. /\ k \in 1..Len(log) /\ HandledUpTo(k - 1)' /\ (closure # 0 => k <= closure)
              /\ Running => k <= observer.upto
            BY <2>1, EnteredStays
        <3>2. k <= Len(log)
            BY <3>1, LogIs DEF Carried, ObserverBase
        <3>. QED BY <3>1, <3>2
    <2>. QED BY <2>1 DEF EnteredInTurn
<1>4. OpenBelowCap'
    <2>. SUFFICES ASSUME closure = 0
                  PROVE  /\ \A j \in 1..saved'.cursor: ~CapAt(j)'
                         /\ \A j \in 1..observer'.cursor: ~CapAt(j)'
                         /\ \A p \in Entries, k \in 1..Len(log'): entered[p] # Absent /\ Bought(p, k)' =>
                               \A j \in 1..(k - 1): ~CapAt(j)'
        BY DEF OpenBelowCap
    <2>1. \A j \in 1..saved'.cursor: ~CapAt(j)'
        BY <1>1
    <2>2. \A j \in 1..observer'.cursor: ~CapAt(j)'
        BY <1>1
    <2>. QED BY <2>1, <2>2, EnteredStays
<1>. QED BY <1>2, <1>3, <1>4

LEMMA InvCarried ==
    ASSUME ObserverInv, ObserverBase', OnlyGrow
    PROVE  Carried
BY DEF ObserverInv, ObserverBase, Carried

\* The event that is being handled remains so.
LEMMA HandlingStays ==
    ASSUME Carried, MoreEvents, Handled(NextSeq)
    PROVE  \A m: m = NextSeq => Handled(m)' /\ HandledUpTo(m)'
<1>1. NextSeq \in 1..Len(log) /\ NextSeq = observer.cursor + 1 /\ observer.cursor \in Nat
    BY NextIs DEF Carried
<1>2. PICK m : m = NextSeq
    OBVIOUS
<1>3. m \in 0..Len(log) /\ \A j \in 1..m: j \in 1..observer.cursor \/ j = m
    BY <1>1, <1>2, LogIs DEF Carried, ObserverBase
<1>4. HandledUpTo(m)
    BY <1>2, <1>3 DEF Carried, CursorsAreHandled, HandledUpTo
<1>5. HandledUpTo(m)'
    BY <1>3, <1>4, HandledStays
<1>6. Handled(m)'
    <2>1. m \in 1..m
        BY <1>1, <1>2
    <2>. QED BY <1>5, <2>1 DEF HandledUpTo
<1>. QED BY <1>2, <1>5, <1>6

\* The trading process, and whoever else leaves the observer's own files alone.
LEMMA Aside_Step ==
    ASSUME ObserverInv, ObserverBase', OnlyGrow,
           UNCHANGED <<entered, sold, closure, saved, report, observer>>
    PROVE  ObserverInv'
<1>1. Carried
    BY InvCarried
<1>2. CursorsAreHandled' /\ EnteredInTurn' /\ OpenBelowCap'
    <2>1. Running => saved.cursor <= observer.cursor /\ closure <= observer.upto
        BY DEF ObserverInv, CursorsAreHandled
    <2>. QED BY <1>1, <2>1, TurnsStay DEF Running
<1>3. SavedIsCounted' /\ ReportIsClosed' /\ ReportIsOfTheCohort'
    BY <1>1, CountsStay, ReportStays DEF ObserverInv
<1>4. PassIsWhere'
    <2>. USE DEF ObserverInv, PassIsWhere
    <2>1. observer.pc = "advance" => MoreEvents' /\ Handled(NextSeq)'
        <3>. SUFFICES ASSUME observer.pc = "advance" PROVE MoreEvents' /\ Handled(NextSeq)'
            OBVIOUS
        <3>1. MoreEvents /\ Handled(NextSeq)
            OBVIOUS
        <3>2. PICK m : m = NextSeq
            OBVIOUS
        <3>3. m = NextSeq' /\ Handled(m)'
            BY <1>1, <3>1, <3>2, HandlingStays DEF NextSeq
        <3>. QED BY <3>1, <3>3 DEF MoreEvents, NextSeq, Handled
    <2>2. ASSUME observer.pc \in {"complete", "report"}
          PROVE  \A p \in Entries, k \in 1..Len(log'):
                    entered[p] # Absent /\ Bought(p, k)' => k <= observer.cursor
        BY <1>1, <2>2, EnteredStays
    <2>. QED BY <2>1, <2>2 DEF Running
<1>. QED BY <1>2, <1>3, <1>4 DEF ObserverInv, ObserverBase
\* A step of the pass that writes no file.
LEMMA Pass_Step ==
    ASSUME ObserverInv, UNCHANGED <<log, entered, sold, closure, saved, report>>,
           observer' \in [pc: ObserverPC, cursor: 0..Len(log), upto: 0..Len(log)],
           observer'.cursor \in {0, saved.cursor, observer.cursor},
           Running' => /\ saved.cursor <= observer'.cursor /\ closure <= observer'.upto
                       /\ \/ Running /\ observer'.upto = observer.upto
                          \/ observer'.upto = Len(log),
           PassIsWhere'
    PROVE  ObserverInv'
<1>1. ObserverBase' /\ OnlyGrow
    BY Quiet_Base DEF ObserverInv, ObserverBase, ObserverTypes
<1>2. Carried
    BY <1>1, InvCarried
<1>3. CursorsAreHandled' /\ EnteredInTurn' /\ OpenBelowCap'
    BY <1>2, TurnsStay
<1>4. SavedIsCounted' /\ ReportIsClosed' /\ ReportIsOfTheCohort'
    BY <1>2, CountsStay, ReportStays DEF ObserverInv
<1>. QED BY <1>1, <1>3, <1>4 DEF ObserverInv, ObserverBase

\* Where the pass is, after such a step.
LEMMA Begin_Step ==
    ASSUME ObserverInv, Begin
    PROVE  ObserverInv'
<1>1. /\ UNCHANGED <<log, entered, sold, closure, saved, report>> /\ Len(log) \in Nat
      /\ saved.cursor \in 0..Len(log) /\ closure \in 0..Len(log)
    BY LogIs DEF Begin, control, n3Files, ObserverInv, ObserverTypes
<1>2. PICK pc \in {"gap", "events"}: observer' = [pc |-> pc, cursor |-> saved.cursor, upto |-> Len(log)]
    BY DEF Begin, ObserverInv, SavedIsCounted
<1>3. observer' \in [pc: ObserverPC, cursor: 0..Len(log), upto: 0..Len(log)]
    BY <1>1, <1>2 DEF ObserverPC
<1>4. /\ observer'.pc \in {"gap", "events"} /\ observer'.cursor = saved.cursor
      /\ observer'.upto = Len(log)
    BY <1>2
<1>5. report = Absent
    BY DEF Begin, ObserverInv, ReportIsClosed
<1>6. PassIsWhere'
    BY <1>1, <1>4, <1>5 DEF PassIsWhere, Running
<1>7. saved.cursor <= observer'.cursor /\ closure <= observer'.upto
    BY <1>1, <1>4
<1>. QED BY <1>1, <1>3, <1>4, <1>6, <1>7, Pass_Step

LEMMA ObserverDies_Step ==
    ASSUME ObserverInv, ObserverDies
    PROVE  ObserverInv'
<1>1. /\ UNCHANGED <<log, entered, sold, closure, saved, report>> /\ Len(log) \in Nat
      /\ observer' = ObserverIdle
    BY LogIs DEF ObserverDies, control, n3Files, ObserverInv
<1>2. observer' \in [pc: ObserverPC, cursor: 0..Len(log), upto: 0..Len(log)]
    BY <1>1 DEF ObserverPC, ObserverIdle
<1>3. observer'.pc = "idle" /\ observer'.cursor = 0
    BY <1>1 DEF ObserverIdle
<1>4. PassIsWhere' /\ ~Running'
    BY <1>3 DEF PassIsWhere, Running
<1>. QED BY <1>1, <1>2, <1>3, <1>4, Pass_Step

\* The position of a pass that goes on in another place of its program.
LEMMA MoveIs ==
    ASSUME ObserverInv, NEW pc \in {"events", "advance", "complete", "report"},
           observer' = [observer EXCEPT !.pc = pc], Running
    PROVE  /\ observer' \in [pc: ObserverPC, cursor: 0..Len(log), upto: 0..Len(log)]
           /\ observer'.pc = pc /\ observer'.cursor = observer.cursor
           /\ observer'.upto = observer.upto
           /\ Running' /\ saved.cursor <= observer'.cursor /\ closure <= observer'.upto
<1>1. observer \in [pc: ObserverPC, cursor: 0..Len(log), upto: 0..Len(log)]
    BY DEF ObserverInv, ObserverTypes
<1>2. /\ observer' \in [pc: ObserverPC, cursor: 0..Len(log), upto: 0..Len(log)]
      /\ observer'.pc = pc /\ observer'.cursor = observer.cursor
      /\ observer'.upto = observer.upto
    BY <1>1 DEF ObserverPC
<1>3. saved.cursor <= observer.cursor /\ closure <= observer.upto
    BY DEF ObserverInv, CursorsAreHandled
<1>. QED BY <1>2, <1>3 DEF Running

LEMMA PassBy_Step ==
    ASSUME ObserverInv, PassBy
    PROVE  ObserverInv'
<1>1. /\ UNCHANGED <<log, entered, sold, closure, saved, report>> /\ Running
      /\ observer' = [observer EXCEPT !.pc = "advance"] /\ MoreEvents /\ ObserverBase
    BY DEF PassBy, control, n3Files, Running, ObserverInv, ObserverBase
<1>2. /\ observer' \in [pc: ObserverPC, cursor: 0..Len(log), upto: 0..Len(log)]
      /\ observer'.pc = "advance" /\ observer'.cursor = observer.cursor
      /\ observer'.upto = observer.upto
      /\ Running' /\ saved.cursor <= observer'.cursor /\ closure <= observer'.upto
    BY <1>1, MoveIs
<1>3. Handled(NextSeq)
    <2>1. /\ NextSeq \in 1..Len(log) /\ Event = log[NextSeq] /\ Subject = log[NextSeq].entry
          /\ (closure # 0 => NextSeq <= closure) /\ Len(log) \in Nat
        BY <1>1, NextIs, LogIs DEF Subject, ObserverBase
    <2>2. CASE Event.type = "BUY" /\ closure # 0
        <3>1. closure \in Nat /\ HandledUpTo(closure)
            BY <2>1 DEF ObserverInv, ObserverTypes, CursorsAreHandled
        <3>2. NextSeq \in 1..closure
            BY <2>1, <2>2, <3>1
        <3>. QED BY <3>1, <3>2 DEF HandledUpTo
    <2>3. CASE Event.type = "BUY" /\ Subject \in Early
        BY <2>1, <2>3 DEF Handled
    <2>4. CASE Event.type # "BUY" /\ entered[Subject] = Absent
        BY <2>1, <2>4 DEF Handled
    <2>. QED BY <1>1, <2>2, <2>3, <2>4 DEF PassBy, Enrolled
<1>4. PassIsWhere'
    <2>1. MoreEvents' /\ Handled(NextSeq)'
        BY <1>1, <1>2, <1>3 DEF MoreEvents, NextSeq, Handled
    <2>2. report' = Absent
        BY <1>1 DEF ObserverInv, PassIsWhere
    <2>. QED BY <1>2, <2>1, <2>2 DEF PassIsWhere
<1>. QED BY <1>1, <1>2, <1>4, Pass_Step

LEMMA EventsDone_Step ==
    ASSUME ObserverInv, EventsDone
    PROVE  ObserverInv'
<1>1. /\ UNCHANGED <<log, entered, sold, closure, saved, report>> /\ Running
      /\ observer' = [observer EXCEPT !.pc = "complete"] /\ ObserverBase
      /\ MoreEvents => Enrolled(Subject) /\ ~MayAdmit(Subject)
    BY DEF EventsDone, control, n3Files, Running, ObserverInv, ObserverBase
<1>2. /\ observer' \in [pc: ObserverPC, cursor: 0..Len(log), upto: 0..Len(log)]
      /\ observer'.pc = "complete" /\ observer'.cursor = observer.cursor
      /\ observer'.upto = observer.upto
      /\ Running' /\ saved.cursor <= observer'.cursor /\ closure <= observer'.upto
    BY <1>1, MoveIs
<1>3. /\ observer.cursor \in Nat /\ observer.upto \in Nat /\ closure \in Nat /\ Len(log) \in Nat
      /\ closure <= observer.upto /\ (closure # 0 => observer.cursor <= closure)
    BY <1>1, LogIs DEF ObserverInv, ObserverTypes, CursorsAreHandled
<1>4. closure # 0 => observer.cursor = closure
    <2>1. CASE MoreEvents
        BY <1>1, <2>1 DEF Enrolled
    <2>2. CASE ~MoreEvents
        BY <1>3, <2>2 DEF MoreEvents, NextSeq
    <2>. QED BY <2>1, <2>2
<1>5. ASSUME NEW p \in Entries, NEW k \in 1..Len(log), entered[p] # Absent, Bought(p, k)
      PROVE  k <= observer.cursor
    <2>1. /\ HandledUpTo(k - 1) /\ k <= observer.upto /\ (closure # 0 => k <= closure) /\ k \in Nat
        BY <1>1, <1>3, <1>5 DEF ObserverInv, EnteredInTurn
    <2>2. CASE MoreEvents
        <3>. DEFINE q == Subject
        <3>1. /\ closure = 0 /\ q \notin Early /\ entered[q] = Absent /\ Event.type = "BUY"
              /\ NextSeq \in 1..Len(log) /\ NextSeq = observer.cursor + 1 /\ Event = log[NextSeq]
              /\ Bought(q, NextSeq) /\ q = log[NextSeq].entry
            BY <1>1, <2>2, NextIs DEF Enrolled, MayAdmit, Subject
        <3>2. ~Handled(NextSeq)
            BY <3>1 DEF Handled
        <3>3. ~(NextSeq \in 1..(k - 1))
            BY <2>1, <3>2 DEF HandledUpTo
        <3>4. NextSeq # k
            BY <1>5, <3>1 DEF Bought, BuyOf
        <3>. QED BY <1>3, <2>1, <3>1, <3>3, <3>4
    <2>3. CASE ~MoreEvents
        BY <1>3, <2>1, <2>3 DEF MoreEvents, NextSeq
    <2>. QED BY <2>2, <2>3
<1>6. PassIsWhere'
    <2>1. ASSUME NEW p \in Entries, NEW k \in 1..Len(log'), entered'[p] # Absent, Bought(p, k)'
          PROVE  k <= observer'.cursor
        BY <1>1, <1>2, <1>5, <2>1 DEF Bought, BuyOf
    <2>2. report' = Absent
        BY <1>1 DEF ObserverInv, PassIsWhere
    <2>. QED BY <1>1, <1>2, <1>4, <2>1, <2>2 DEF PassIsWhere
<1>. QED BY <1>1, <1>2, <1>6, Pass_Step
\* A write of an event's record goes on to the next event.
LEMMA RecordSell_Step ==
    ASSUME ObserverInv, RecordSell
    PROVE  ObserverInv'
<1>1. /\ UNCHANGED <<log, entered, closure, saved, report>> /\ Running /\ MoreEvents
      /\ Event.type = "SELL" /\ ObserverBase
    BY DEF RecordSell, control, Running, ObserverInv, ObserverBase
<1>2. /\ ObserverBase' /\ OnlyGrow /\ NextSeq \in sold'
      /\ observer' = [observer EXCEPT !.pc = "advance"]
    BY <1>1, RecordSell_Base
<1>3. /\ observer'.pc = "advance" /\ observer'.cursor = observer.cursor
      /\ observer'.upto = observer.upto
      /\ Running' /\ saved.cursor <= observer'.cursor /\ closure <= observer'.upto
    BY <1>1, <1>2, MoveIs
<1>4. Carried
    BY <1>2, InvCarried
<1>5. CursorsAreHandled' /\ EnteredInTurn' /\ OpenBelowCap'
    BY <1>1, <1>3, <1>4, TurnsStay
<1>6. SavedIsCounted' /\ ReportIsClosed' /\ ReportIsOfTheCohort'
    BY <1>1, <1>4, CountsStay, ReportStays DEF ObserverInv
<1>7. PassIsWhere'
    <2>1. MoreEvents' /\ NextSeq' = NextSeq
        BY <1>1, <1>3 DEF MoreEvents, NextSeq
    <2>2. Handled(NextSeq)'
        BY <1>1, <1>2, <2>1 DEF Handled, Event
    <2>3. report' = Absent
        BY <1>1 DEF ObserverInv, PassIsWhere
    <2>. QED BY <1>3, <2>1, <2>2, <2>3 DEF PassIsWhere
<1>. QED BY <1>2, <1>5, <1>6, <1>7 DEF ObserverInv, ObserverBase

LEMMA Admit_Step ==
    ASSUME ObserverInv, Admit
    PROVE  ObserverInv'
<1>1. /\ UNCHANGED <<log, sold, closure, saved, report>> /\ Running /\ MoreEvents
      /\ Event.type = "BUY" /\ closure = 0 /\ ObserverBase
    BY DEF Admit, Enrolled, control, Running, ObserverInv, ObserverBase
<1>2. /\ ObserverBase' /\ OnlyGrow /\ observer' = [observer EXCEPT !.pc = "advance"]
      /\ entered'[Subject] # Absent
      /\ \A p \in Entries: p # Subject => entered'[p] = entered[p]
    BY <1>1, Admit_Base
<1>3. /\ observer'.pc = "advance" /\ observer'.cursor = observer.cursor
      /\ observer'.upto = observer.upto
      /\ Running' /\ saved.cursor <= observer'.cursor /\ closure <= observer'.upto
    BY <1>1, <1>2, MoveIs
<1>4. Carried
    BY <1>2, InvCarried
<1>5. /\ NextSeq \in 1..Len(log) /\ NextSeq = observer.cursor + 1 /\ observer.cursor \in Nat
      /\ Subject \in Entries /\ Event = log[NextSeq] /\ Subject = log[NextSeq].entry
      /\ Bought(Subject, NextSeq) /\ NextSeq <= observer.upto
    BY <1>1, NextIs DEF Subject
<1>6. \A n \in {0, saved.cursor, observer.cursor, closure}:
         HandledUpTo(n)' /\ \A j \in 1..n: ~CapAt(j)'
    BY <1>1, <1>4, CursorsStay
\* The entry is that of the event, whether it is new or not.
<1>7. ASSUME NEW p \in Entries, entered'[p] # Absent, NEW k \in 1..Len(log'), Bought(p, k)'
      PROVE  HandledUpTo(k - 1)' /\ k <= observer'.upto /\ \A j \in 1..(k - 1): ~CapAt(j)'
    <2>1. CASE p = Subject
        <3>1. k \in 1..Len(log) /\ Bought(p, k)
            BY <1>1, <1>7 DEF Bought, BuyOf
        <3>2. k = NextSeq
            BY <1>1, <1>5, <2>1, <3>1 DEF ObserverBase, OneBuy
        <3>3. k - 1 = observer.cursor
            BY <1>5, <3>2
        <3>. QED BY <1>3, <1>5, <1>6, <3>2, <3>3
    <2>2. CASE entered[p] # Absent
        BY <1>1, <1>3, <1>4, <1>7, <2>2, EnteredStays
    <2>. QED BY <1>2, <1>7, <2>1, <2>2
<1>8. CursorsAreHandled'
    <2>1. PICK a, b, c: a = saved'.cursor /\ b = observer'.cursor /\ c = closure'
        OBVIOUS
    <2>2. HandledUpTo(a)' /\ HandledUpTo(b)' /\ HandledUpTo(c)'
        BY <1>1, <1>3, <1>6, <2>1
    <2>3. HandledUpTo(saved.cursor)' /\ HandledUpTo(observer.cursor)' /\ HandledUpTo(closure)'
        BY <2>1, <2>2 DEF HandledUpTo
    <2>. QED BY <1>1, <1>3, <2>3 DEF CursorsAreHandled
<1>9. EnteredInTurn'
    BY <1>1, <1>7 DEF EnteredInTurn
<1>10. OpenBelowCap'
    <2>1. /\ \A j \in 1..saved'.cursor: ~CapAt(j)'
          /\ \A j \in 1..observer'.cursor: ~CapAt(j)'
        BY <1>1, <1>3, <1>6
    <2>. QED BY <1>7, <2>1 DEF OpenBelowCap
<1>11. SavedIsCounted' /\ ReportIsClosed' /\ ReportIsOfTheCohort'
    BY <1>1, <1>4, CountsStay, ReportStays DEF ObserverInv
<1>12. PassIsWhere'
    <2>1. MoreEvents' /\ NextSeq' = NextSeq
        BY <1>1, <1>3 DEF MoreEvents, NextSeq
    <2>2. Handled(NextSeq)'
        BY <1>1, <1>2, <1>5, <2>1 DEF Handled
    <2>3. report' = Absent
        BY <1>1 DEF ObserverInv, PassIsWhere
    <2>. QED BY <1>3, <2>1, <2>2, <2>3 DEF PassIsWhere
<1>. QED BY <1>2, <1>8, <1>9, <1>10, <1>11, <1>12 DEF ObserverInv, ObserverBase

\* The closure is written where a cap is reached for the first time.
LEMMA Advance_Step ==
    ASSUME ObserverInv, Advance
    PROVE  ObserverInv'
<1>1. /\ UNCHANGED <<log, entered, sold, saved, report>> /\ Running
      /\ closure' = IF closure = 0 /\ CapReached(NextSeq) THEN NextSeq ELSE closure
      /\ observer' = [observer EXCEPT !.cursor = NextSeq, !.pc = "events"]
      /\ MoreEvents /\ Handled(NextSeq) /\ ObserverBase
    BY DEF Advance, control, Running, ObserverInv, ObserverBase, PassIsWhere
<1>2. /\ NextSeq \in 1..Len(log) /\ NextSeq = observer.cursor + 1 /\ observer.cursor \in Nat
      /\ (closure # 0 => NextSeq <= closure) /\ NextSeq <= observer.upto /\ Len(log) \in Nat
      /\ observer.upto \in 0..Len(log) /\ closure \in 0..Len(log) /\ saved.cursor \in 0..Len(log)
      /\ saved.cursor <= observer.cursor /\ closure <= observer.upto
    BY <1>1, NextIs, LogIs DEF ObserverInv, ObserverBase, ObserverTypes, CursorsAreHandled
<1>3. /\ observer'.pc = "events" /\ observer'.cursor = NextSeq /\ observer'.upto = observer.upto
      /\ observer' \in [pc: ObserverPC, cursor: 0..Len(log), upto: 0..Len(log)]
    <2>. DEFINE m == NextSeq
    <2>1. m \in 0..Len(log) /\ observer' = [observer EXCEPT !.cursor = m, !.pc = "events"]
        BY <1>1, <1>2
    <2>2. observer \in [pc: ObserverPC, cursor: 0..Len(log), upto: 0..Len(log)]
        BY <1>1 DEF ObserverBase, ObserverTypes
    <2>. HIDE DEF m
    <2>3. /\ observer'.pc = "events" /\ observer'.cursor = m /\ observer'.upto = observer.upto
          /\ observer' \in [pc: ObserverPC, cursor: 0..Len(log), upto: 0..Len(log)]
        BY <2>1, <2>2 DEF ObserverPC
    <2>. QED BY <2>3 DEF m
<1>4. ObserverBase' /\ OnlyGrow
    <2>1. closure' \in 0..Len(log) /\ saved'.cursor \in 0..Len(log)
        BY <1>1, <1>2
    <2>. QED BY <1>1, <1>3, <2>1, Quiet_Base
<1>5. Carried
    BY <1>4, InvCarried
<1>6. PICK m : m = NextSeq
    OBVIOUS
<1>7. HandledUpTo(m)'
    BY <1>1, <1>5, <1>6, HandlingStays
<1>8. \A j: CapAt(j)' <=> CapAt(j)
    BY <1>1 DEF CapAt, Admitted, BuySeq, CohortTrades, SellSeqs, Legs
<1>9. CapReached(NextSeq) <=> CapAt(NextSeq)
    BY DEF CapReached, CapAt, Event, Subject
\* No entry is beyond the event that closes the cohort.
<1>10. ASSUME NEW p \in Entries, entered[p] # Absent, NEW k \in 1..Len(log'), Bought(p, k)'
       PROVE  /\ HandledUpTo(k - 1)' /\ k <= observer'.upto /\ (closure' # 0 => k <= closure')
              /\ closure' = 0 => \A j \in 1..(k - 1): ~CapAt(j)'
    <2>1. /\ k \in 1..Len(log) /\ Bought(p, k) /\ HandledUpTo(k - 1)'
          /\ (closure = 0 => \A j \in 1..(k - 1): ~CapAt(j)')
          /\ (closure # 0 => k <= closure) /\ k <= observer.upto
        BY <1>1, <1>5, <1>10, EnteredStays
    <2>2. ASSUME closure = 0, CapReached(NextSeq) PROVE k <= NextSeq
        <3>1. ~(NextSeq \in 1..(k - 1))
            BY <1>8, <1>9, <2>1, <2>2
        <3>. QED BY <1>2, <2>1, <3>1
    <2>3. closure' = 0 => closure = 0
        BY <1>1, <1>2
    <2>. QED BY <1>1, <1>3, <2>1, <2>2, <2>3
<1>11. CursorsAreHandled'
    <2>1. \A n \in {0, saved.cursor, observer.cursor, closure}: HandledUpTo(n)'
        BY <1>5, CursorsStay
    <2>2. PICK a, b, c: a = saved'.cursor /\ b = observer'.cursor /\ c = closure'
        OBVIOUS
    <2>3. HandledUpTo(a)' /\ HandledUpTo(b)' /\ HandledUpTo(c)'
        BY <1>1, <1>3, <1>6, <1>7, <2>1, <2>2
    <2>4. HandledUpTo(saved.cursor)' /\ HandledUpTo(observer.cursor)' /\ HandledUpTo(closure)'
        BY <2>2, <2>3 DEF HandledUpTo
    <2>5. saved.cursor <= NextSeq /\ closure' <= observer.upto
        BY <1>1, <1>2
    <2>6. closure' # 0 => saved.cursor <= closure' /\ NextSeq <= closure'
        BY <1>1, <1>2
    <2>. QED BY <1>1, <1>3, <2>4, <2>5, <2>6 DEF CursorsAreHandled
<1>12. EnteredInTurn'
    BY <1>1, <1>10 DEF EnteredInTurn
<1>13. OpenBelowCap'
    <2>. SUFFICES ASSUME closure' = 0 PROVE OpenBelowCap'
        BY DEF OpenBelowCap
    <2>1. closure = 0 /\ ~CapAt(NextSeq)
        BY <1>1, <1>2, <1>9
    <2>2. /\ \A j \in 1..saved.cursor: ~CapAt(j)
          /\ \A j \in 1..observer.cursor: ~CapAt(j)
        BY <2>1 DEF ObserverInv, OpenBelowCap
    <2>3. \A j \in 1..NextSeq: j \in 1..observer.cursor \/ j = NextSeq
        BY <1>2
    <2>4. /\ \A j \in 1..saved'.cursor: ~CapAt(j)'
          /\ \A j \in 1..observer'.cursor: ~CapAt(j)'
        BY <1>1, <1>3, <1>8, <2>1, <2>2, <2>3
    <2>5. \A p \in Entries, k \in 1..Len(log'): entered'[p] # Absent /\ Bought(p, k)' =>
              \A j \in 1..(k - 1): ~CapAt(j)'
        BY <1>1, <1>10
    <2>. QED BY <2>4, <2>5 DEF OpenBelowCap
<1>14. SavedIsCounted' /\ ReportIsClosed' /\ ReportIsOfTheCohort'
    <2>1. closure # 0 => closure' # 0
        BY <1>1
    <2>. QED BY <1>1, <1>5, <2>1, CountsStay, ReportStays DEF ObserverInv
<1>15. PassIsWhere'
    <2>1. report' = Absent
        BY <1>1 DEF ObserverInv, PassIsWhere
    <2>. QED BY <1>3, <2>1 DEF PassIsWhere
<1>. QED BY <1>4, <1>11, <1>12, <1>13, <1>14, <1>15 DEF ObserverInv, ObserverBase
LEMMA SaveState_Step ==
    ASSUME ObserverInv, SaveState
    PROVE  ObserverInv'
<1>1. /\ UNCHANGED <<log, entered, sold, closure, report>> /\ Running /\ ObserverBase
      /\ observer.pc = "complete"
      /\ saved' = [cursor |-> SavedCursor, admitted |-> Cardinality(Admitted),
                   sells |-> Cardinality({i \in sold: i <= observer.cursor}),
                   completed |-> Cardinality(CohortTrades(End))]
      /\ observer' = IF closure = 0 THEN ObserverIdle ELSE [observer EXCEPT !.pc = "report"]
    BY DEF SaveState, control, Running, ObserverInv, ObserverBase
<1>2. /\ observer.cursor \in 0..Len(log) /\ Len(log) \in Nat
      /\ closure # 0 => observer.cursor = closure
      /\ \A p \in Entries, k \in 1..Len(log):
            entered[p] # Absent /\ Bought(p, k) => k <= observer.cursor
    BY <1>1, LogIs DEF ObserverInv, ObserverBase, ObserverTypes, PassIsWhere
<1>3. saved'.cursor = observer.cursor /\ End = observer.cursor
    BY <1>1, <1>2 DEF SavedCursor, End
<1>4. /\ observer' \in [pc: ObserverPC, cursor: 0..Len(log), upto: 0..Len(log)]
      /\ observer'.cursor \in {0, observer.cursor} /\ PassIsWhere'
      /\ Running' => /\ Running /\ observer'.upto = observer.upto
                     /\ saved'.cursor <= observer'.cursor /\ closure <= observer'.upto
    <2>1. CASE closure = 0
        <3>1. observer' = ObserverIdle
            BY <1>1, <2>1
        <3>2. /\ observer'.pc = "idle" /\ observer'.cursor = 0
              /\ observer' \in [pc: ObserverPC, cursor: 0..Len(log), upto: 0..Len(log)]
            BY <1>2, <3>1 DEF ObserverIdle, ObserverPC
        <3>. QED BY <3>2 DEF PassIsWhere, Running
    <2>2. CASE closure # 0
        <3>1. observer' = [observer EXCEPT !.pc = "report"]
            BY <1>1, <2>2
        <3>2. /\ observer' \in [pc: ObserverPC, cursor: 0..Len(log), upto: 0..Len(log)]
              /\ observer'.pc = "report" /\ observer'.cursor = observer.cursor
              /\ observer'.upto = observer.upto /\ closure <= observer'.upto
            BY <1>1, <3>1, MoveIs
        <3>3. ASSUME NEW p \in Entries, NEW k \in 1..Len(log'), entered'[p] # Absent, Bought(p, k)'
              PROVE  k <= observer'.cursor
            BY <1>1, <1>2, <3>2, <3>3 DEF Bought, BuyOf
        <3>4. report' = Absent
            BY <1>1 DEF ObserverInv, PassIsWhere
        <3>5. PassIsWhere'
            BY <1>1, <1>2, <2>2, <3>2, <3>3, <3>4 DEF PassIsWhere
        <3>6. saved'.cursor <= observer'.cursor
            BY <1>2, <1>3, <3>2
        <3>. QED BY <1>1, <3>2, <3>5, <3>6
    <2>. QED BY <2>1, <2>2
<1>5. ObserverBase' /\ OnlyGrow
    <2>1. closure' \in 0..Len(log) /\ saved'.cursor \in 0..Len(log)
        BY <1>1, <1>2, <1>3 DEF ObserverBase, ObserverTypes
    <2>. QED BY <1>1, <1>4, <2>1, Quiet_Base
<1>6. Carried
    BY <1>5, InvCarried
<1>7. CursorsAreHandled' /\ EnteredInTurn' /\ OpenBelowCap'
    BY <1>1, <1>3, <1>4, <1>6, TurnsStay
\* What is saved is what is counted up to the cursor.
<1>8. SavedIsCounted'
    <2>1. Admitted = AdmittedBy(observer.cursor)
        <3>1. ASSUME NEW p \in Admitted PROVE BuySeq(p) <= observer.cursor
            <4>1. p \in Entries /\ entered[p] # Absent
                BY DEF Admitted
            <4>2. PICK k \in 1..Len(log): Bought(p, k)
                BY <1>1, <4>1 DEF ObserverBase, EnteredIsBought
            <4>3. BuySeq(p) = k
                BY <1>1, <4>1, <4>2, BuySeqIs DEF ObserverBase
            <4>. QED BY <1>2, <4>1, <4>2, <4>3
        <3>. QED BY <3>1 DEF AdmittedBy
    <2>. DEFINE n == observer.cursor
    <2>2. PICK m : m = n
        OBVIOUS
    <2>3. /\ saved'.cursor = m /\ saved'.admitted = Cardinality(AdmittedBy(m))
          /\ saved'.sells = Cardinality(SoldBy(m)) /\ saved'.completed = Cardinality(CohortTrades(m))
        BY <1>1, <1>3, <2>1, <2>2 DEF SoldBy
    <2>4. AdmittedBy(m)' = AdmittedBy(m) /\ SoldBy(m)' = SoldBy(m) /\ CohortTrades(m)' = CohortTrades(m)
        BY <1>1 DEF AdmittedBy, Admitted, BuySeq, SoldBy, CohortTrades, SellSeqs, Legs
    <2>5. SavedIsCounted' <=> /\ Cardinality(AdmittedBy(m)') = saved'.admitted
                              /\ Cardinality(SoldBy(m)') = saved'.sells
                              /\ Cardinality(CohortTrades(m)') = saved'.completed
        BY <2>3 DEF SavedIsCounted, Consistent, AdmittedBy, SoldBy, CohortTrades, Legs
    <2>. QED BY <2>3, <2>4, <2>5
<1>9. ReportIsClosed' /\ ReportIsOfTheCohort'
    BY <1>1, <1>6, ReportStays DEF ObserverInv
<1>. QED BY <1>4, <1>5, <1>7, <1>8, <1>9 DEF ObserverInv, ObserverBase

\* The report of a cohort that is closed and handled up to its end.
LEMMA WriteReport_Step ==
    ASSUME ObserverInv, WriteReport
    PROVE  ObserverInv'
<1>. DEFINE final == [end |-> closure, trades |-> CohortTrades(End),
                      censored |-> Admitted \ CohortTrades(End)]
<1>1. /\ UNCHANGED <<log, entered, sold, closure, saved>> /\ Running /\ ObserverBase
      /\ observer.pc = "report" /\ report = Absent /\ closure # 0
    BY DEF WriteReport, control, Running, ObserverInv, ObserverBase, PassIsWhere
<1>2. report' = final /\ observer' = ObserverIdle
    BY <1>1 DEF WriteReport
<1>3. /\ closure \in 0..Len(log) /\ Len(log) \in Nat /\ DOMAIN log = 1..Len(log)
      /\ HandledUpTo(closure) /\ End = closure
      /\ \A p \in Entries, k \in 1..Len(log):
            entered[p] # Absent /\ Bought(p, k) => k <= closure
    BY <1>1, LogIs DEF ObserverInv, ObserverBase, ObserverTypes, CursorsAreHandled, EnteredInTurn, End
<1>4. /\ observer'.pc = "idle" /\ observer'.cursor = 0
      /\ observer' \in [pc: ObserverPC, cursor: 0..Len(log), upto: 0..Len(log)]
    BY <1>2, <1>3 DEF ObserverIdle, ObserverPC
<1>5. ObserverBase' /\ OnlyGrow
    <2>1. closure' \in 0..Len(log) /\ saved'.cursor \in 0..Len(log)
        BY <1>1 DEF ObserverBase, ObserverTypes
    <2>. QED BY <1>1, <1>4, <2>1, Quiet_Base
<1>6. Carried
    BY <1>5, InvCarried
<1>7. PassIsWhere' /\ ~Running'
    BY <1>4 DEF PassIsWhere, Running
<1>8. CursorsAreHandled' /\ EnteredInTurn' /\ OpenBelowCap'
    BY <1>1, <1>4, <1>6, <1>7, TurnsStay
<1>9. SavedIsCounted'
    BY <1>1, <1>6, CountsStay DEF ObserverInv
<1>10. ReportIsClosed'
    BY <1>1, <1>2, <1>3 DEF ReportIsClosed
<1>. DEFINE IsIn(p) == \E i \in 1..closure: log[i] = [type |-> "BUY", entry |-> p]
            cohort == {p \in Entries \ Early: IsIn(p)}
            legs(p) == {i \in SellSeqs(p): i <= closure}
            ended == {p \in cohort: Cardinality(legs(p)) = Legs}
\* The entries on file are the cohort of the ledger.
<1>11. ASSUME NEW p \in Entries
       PROVE  /\ p \in cohort <=> entered[p] # Absent
              /\ entered[p] # Absent => BuySeq(p) <= closure
    <2>1. ASSUME entered[p] # Absent PROVE p \in cohort /\ BuySeq(p) <= closure
        <3>1. p \notin Early
            BY <1>1, <2>1 DEF ObserverBase, EnteredIsBought
        <3>2. PICK k \in 1..Len(log): Bought(p, k)
            BY <1>1, <2>1 DEF ObserverBase, EnteredIsBought
        <3>3. k \in 1..closure /\ log[k] = [type |-> "BUY", entry |-> p]
            BY <1>3, <2>1, <3>2 DEF Bought, BuyOf
        <3>4. BuySeq(p) = k
            BY <1>1, <3>2, BuySeqIs DEF ObserverBase
        <3>. QED BY <1>3, <3>1, <3>3, <3>4
    <2>2. ASSUME p \in cohort PROVE entered[p] # Absent
        <3>1. PICK i \in 1..closure: log[i] = [type |-> "BUY", entry |-> p]
            BY <2>2
        <3>2. Handled(i) /\ log[i].type = "BUY" /\ log[i].entry = p
            BY <1>3, <3>1 DEF HandledUpTo
        <3>. QED BY <2>2, <3>2 DEF Handled
    <2>. QED BY <2>1, <2>2
<1>12. ASSUME NEW p \in Entries, entered[p] # Absent
       PROVE  {i \in SellSeqs(p): i <= closure /\ i \in sold} = legs(p)
    <2>1. ASSUME NEW i \in legs(p) PROVE i \in sold
        <3>1. i \in 1..closure /\ log[i] = [type |-> "SELL", entry |-> p]
            BY <1>3 DEF SellSeqs
        <3>2. Handled(i) /\ log[i].type = "SELL" /\ log[i].entry = p
            BY <1>3, <3>1 DEF HandledUpTo
        <3>. QED BY <1>12, <3>2 DEF Handled
    <2>. QED BY <2>1
<1>13. CohortTrades(closure) = ended
    <2>1. ASSUME NEW p \in Entries PROVE p \in CohortTrades(closure) <=> p \in ended
        <3>1. p \in CohortTrades(closure) <=>
                 /\ entered[p] # Absent /\ BuySeq(p) <= closure
                 /\ Cardinality({i \in SellSeqs(p): i <= closure /\ i \in sold}) = Legs
            BY DEF CohortTrades
        <3>2. p \in ended <=> p \in cohort /\ Cardinality(legs(p)) = Legs
            OBVIOUS
        <3>. HIDE DEF cohort, legs, ended
        <3>. QED BY <1>11, <1>12, <3>1, <3>2
    <2>2. CohortTrades(closure) \subseteq Entries /\ ended \subseteq Entries
        BY DEF CohortTrades
    <2>. HIDE DEF ended
    <2>. QED BY <2>1, <2>2
<1>14. Admitted = cohort
    <2>1. Admitted = {p \in Entries: entered[p] # Absent} /\ cohort \subseteq Entries
        BY DEF Admitted
    <2>. HIDE DEF cohort
    <2>. QED BY <1>11, <2>1
<1>15. ReportIsOfTheCohort'
    <2>1. PICK e : e = closure
        OBVIOUS
    <2>2. report'.end = e /\ report'.trades = ended /\ report'.censored = cohort \ ended
        <3>. HIDE DEF ended, cohort
        <3>. QED BY <1>2, <1>3, <1>13, <1>14, <2>1
    <2>3. cohort = {p \in Entries \ Early: \E i \in 1..e: log'[i] = [type |-> "BUY", entry |-> p]}
        BY <1>1, <2>1
    <2>4. ended = {p \in cohort: Cardinality({i \in SellSeqs(p)': i <= e}) = Legs}
        BY <1>1, <2>1 DEF SellSeqs
    <2>. HIDE DEF ended, cohort
    <2>. QED BY <2>2, <2>3, <2>4 DEF ReportIsOfTheCohort, Legs
<1>. QED BY <1>5, <1>7, <1>8, <1>9, <1>10, <1>15 DEF ObserverInv, ObserverBase

-----------------------------------------------------------------------------

LEMMA ObserverInit_Inv == N3Init => ObserverInv
<1>. SUFFICES ASSUME N3Init PROVE ObserverInv
    OBVIOUS
<1>. USE DEF N3Init
<1>1. /\ log \in Seq(Events) /\ Len(log) = 0 /\ closure = 0 /\ report = Absent
      /\ saved.cursor = 0 /\ saved.admitted = 0 /\ saved.sells = 0 /\ saved.completed = 0
      /\ \A p \in Entries: entered[p] = Absent
      /\ entered \in [Entries -> SkipValues \cup {Absent}]
    OBVIOUS
<1>2. /\ observer.pc = "idle" /\ observer.cursor = 0 /\ observer.upto = 0
      /\ observer \in [pc: ObserverPC, cursor: 0..0, upto: 0..0]
    BY DEF ObserverIdle, ObserverPC
<1>3. ObserverTypes
    BY <1>1, <1>2 DEF ObserverTypes
<1>4. OneBuy /\ BuyThenSells /\ EnteredIsBought
    BY <1>1 DEF OneBuy, BuyThenSells, EnteredIsBought
<1>5. CursorsAreHandled /\ EnteredInTurn /\ OpenBelowCap
    BY <1>1, <1>2 DEF CursorsAreHandled, EnteredInTurn, OpenBelowCap, HandledUpTo, Running
<1>6. SavedIsCounted
    <2>1. Admitted = {} /\ {i \in sold: i <= 0} = {}
        BY <1>1 DEF Admitted
    <2>2. {p \in Admitted: BuySeq(p) <= 0} = {} /\ CohortTrades(0) = {}
        BY <1>1, <2>1 DEF CohortTrades
    <2>3. Cardinality({}) = 0
        BY FS_EmptySet
    <2>4. Consistent <=> /\ Cardinality({p \in Admitted: BuySeq(p) <= 0}) = 0
                         /\ Cardinality({i \in sold: i <= 0}) = 0
                         /\ Cardinality(CohortTrades(0)) = 0
        BY <1>1 DEF Consistent
    <2>. QED BY <2>1, <2>2, <2>3, <2>4, Zenon DEF SavedIsCounted
<1>7. PassIsWhere /\ ReportIsClosed /\ ReportIsOfTheCohort
    BY <1>1, <1>2 DEF PassIsWhere, ReportIsClosed, ReportIsOfTheCohort, Running
<1>. QED BY <1>3, <1>4, <1>5, <1>6, <1>7 DEF ObserverInv

LEMMA ObserverStep_Inv == ObserverInv /\ [N3Next]_n3Vars => ObserverInv'
<1>. SUFFICES ASSUME ObserverInv, [N3Next]_n3Vars PROVE ObserverInv'
    OBVIOUS
<1>1. ObserverBase
    BY DEF ObserverInv, ObserverBase
<1>2. CASE Trading
    <2>1. ObserverBase' /\ OnlyGrow /\ UNCHANGED <<n3Files, observer>>
        BY <1>1, <1>2, Trading_Base
    <2>2. UNCHANGED <<entered, sold, closure, saved, report, observer>>
        BY <2>1 DEF n3Files
    <2>. QED BY <2>1, <2>2, Aside_Step
<1>3. CASE (\E p \in Entries: RecordCompleted(p)) \/ UNCHANGED n3Vars
    <2>1. UNCHANGED <<log, entered, sold, closure, saved, report, observer>>
        BY <1>3 DEF RecordCompleted, control, n3Vars
    <2>2. /\ closure' \in 0..Len(log) /\ saved'.cursor \in 0..Len(log)
          /\ observer' \in [pc: ObserverPC, cursor: 0..Len(log), upto: 0..Len(log)]
        BY <1>1, <2>1 DEF ObserverBase, ObserverTypes
    <2>3. ObserverBase' /\ OnlyGrow
        BY <1>1, <2>1, <2>2, Quiet_Base
    <2>. QED BY <2>1, <2>3, Aside_Step
<1>4. CASE Begin \/ PassBy \/ EventsDone \/ ObserverDies
    BY <1>4, Begin_Step, PassBy_Step, EventsDone_Step, ObserverDies_Step
<1>5. CASE Admit \/ RecordSell \/ Advance \/ SaveState \/ WriteReport
    BY <1>5, Admit_Step, RecordSell_Step, Advance_Step, SaveState_Step, WriteReport_Step
<1>. QED BY <1>2, <1>3, <1>4, <1>5 DEF N3Next, Trading

\* The observer, which may die between any two of its writes while snapshots come late or
\* are lost, never finds a file that contradicts what it writes, and what it reports at
\* the end is the cohort that the ledger has (observe_once, immutable, final_report).
THEOREM ObserverStaysFaithful == N3Spec => []ObserverIsFaithful
<1>1. ObserverInv => ObserverIsFaithful
    BY DEF ObserverInv, PassIsWhere, ObserverIsFaithful, ReplayAgrees
<1>. QED BY <1>1, ObserverInit_Inv, ObserverStep_Inv, PTL DEF N3Spec

-----------------------------------------------------------------------------
(* What a bucket stands for                                                  *)

Metric == [count : Nat, bits : SUBSET Bits]
Method == [asked : Nat, other : Nat]
Keyed(f, V) == IsFiniteSet(DOMAIN f) /\ \A k \in DOMAIN f : f[k] \in V

IsBucket(B) ==
    /\ B = [stages |-> B.stages, confirmed |-> B.confirmed, confirmedOver |-> B.confirmedOver,
            methods |-> B.methods, methodsOver |-> B.methodsOver]
    /\ B.stages \in [Stages -> Metric]
    /\ Keyed(B.confirmed, Metric) /\ B.confirmedOver \in Nat
    /\ Keyed(B.methods, Method) /\ B.methodsOver \in Nat

\* The three sums of EventsIn.
InStages(B)    == SumFunction([s \in Stages |-> B.stages[s].count])
InConfirmed(B) == SumFunction([k \in DOMAIN B.confirmed |-> B.confirmed[k].count])
InMethods(B)   == SumFunction([k \in DOMAIN B.methods |-> B.methods[k].asked])

\* What a bucket stands for is made of its three sums and two overflows, all numbers.
LEMMA SumsOfBucket ==
    ASSUME NEW B, IsBucket(B)
    PROVE  /\ InStages(B) \in Nat /\ InConfirmed(B) \in Nat /\ InMethods(B) \in Nat
           /\ B.confirmedOver \in Nat /\ B.methodsOver \in Nat
           /\ EventsIn(B).seen = InStages(B) + B.confirmedOver + InConfirmed(B)
           /\ EventsIn(B).asked = InMethods(B) + B.methodsOver
           /\ EventsIn(B).seen \in Nat /\ EventsIn(B).asked \in Nat
<1>1. InStages(B) \in Nat
  <2>1. PICK g : g = [s \in Stages |-> B.stages[s].count]
    OBVIOUS
  <2>2. IsFiniteSet(DOMAIN g) /\ \A s \in DOMAIN g : g[s] \in Nat
    BY <2>1, CoverageAssumption DEF IsBucket, Metric
  <2> QED
    BY <2>1, <2>2, TotalOfNumbers DEF InStages
<1>2. InConfirmed(B) \in Nat
  <2>1. PICK g : g = [k \in DOMAIN B.confirmed |-> B.confirmed[k].count]
    OBVIOUS
  <2>2. IsFiniteSet(DOMAIN g) /\ \A s \in DOMAIN g : g[s] \in Nat
    BY <2>1 DEF IsBucket, Keyed, Metric
  <2> QED
    BY <2>1, <2>2, TotalOfNumbers DEF InConfirmed
<1>3. InMethods(B) \in Nat
  <2>1. PICK g : g = [k \in DOMAIN B.methods |-> B.methods[k].asked]
    OBVIOUS
  <2>2. IsFiniteSet(DOMAIN g) /\ \A s \in DOMAIN g : g[s] \in Nat
    BY <2>1 DEF IsBucket, Keyed, Method
  <2> QED
    BY <2>1, <2>2, TotalOfNumbers DEF InMethods
<1>4. B.confirmedOver \in Nat /\ B.methodsOver \in Nat
  BY DEF IsBucket
<1>5. /\ EventsIn(B).seen = InStages(B) + B.confirmedOver + InConfirmed(B)
      /\ EventsIn(B).asked = InMethods(B) + B.methodsOver
  BY DEF EventsIn, InStages, InConfirmed, InMethods
<1> QED
  BY <1>1, <1>2, <1>3, <1>4, <1>5

\* The empty bucket is one, and stands for nothing.
LEMMA EmptyIsBucket ==
    /\ IsBucket(EmptyBucket)
    /\ EventsIn(EmptyBucket).seen = 0 /\ EventsIn(EmptyBucket).asked = 0
<1> SUFFICES ASSUME NEW B, B = EmptyBucket
             PROVE  IsBucket(B) /\ EventsIn(B).seen = 0 /\ EventsIn(B).asked = 0
  OBVIOUS
<1>2. /\ B.stages = [s \in Stages |-> NoMetric] /\ B.confirmed = <<>> /\ B.methods = <<>>
      /\ B.confirmedOver = 0 /\ B.methodsOver = 0
      /\ B = [stages |-> B.stages, confirmed |-> B.confirmed, confirmedOver |-> B.confirmedOver,
              methods |-> B.methods, methodsOver |-> B.methodsOver]
  BY DEF EmptyBucket
<1>3. DOMAIN B.confirmed = {} /\ DOMAIN B.methods = {}
  BY <1>2
<1>4. IsBucket(B)
  BY <1>2, <1>3, FS_EmptySet DEF IsBucket, Keyed, Metric, NoMetric
<1>5. InStages(B) = 0
  <2>1. PICK g : g = [s \in Stages |-> B.stages[s].count]
    OBVIOUS
  <2>2. IsFiniteSet(DOMAIN g) /\ \A s \in DOMAIN g : g[s] = 0
    BY <1>2, <2>1, CoverageAssumption DEF NoMetric
  <2> QED
    BY <2>1, <2>2, TotalOfZeros DEF InStages
<1>6. InConfirmed(B) = 0 /\ InMethods(B) = 0
  BY <1>3, TotalOfNothing DEF InConfirmed, InMethods
<1>7. EventsIn(B).seen = 0 /\ EventsIn(B).asked = 0
  <2>1. B.confirmedOver = 0 /\ B.methodsOver = 0
    BY <1>2
  <2> QED
    BY <1>4, <1>5, <1>6, <2>1, SumsOfBucket
<1> QED
  BY <1>4, <1>7

\* What a merge lets in: what is there, and of what comes some.
LEMMA LetInBetween ==
    ASSUME NEW t, NEW s
    PROVE  DOMAIN t \subseteq LetIn(t, s) /\ LetIn(t, s) \subseteq DOMAIN t \cup DOMAIN s
  BY DEF LetIn
\* The parts of a merged bucket.
Merges(M, t, s) ==
           /\ M = [stages |-> M.stages, confirmed |-> M.confirmed, confirmedOver |-> M.confirmedOver,
                   methods |-> M.methods, methodsOver |-> M.methodsOver]
           /\ M.stages = [g \in Stages |-> MergeMetric(t.stages[g], s.stages[g])]
           /\ M.confirmed = [k \in LetIn(t.confirmed, s.confirmed) |->
                 MergeMetric(At(t.confirmed, k, NoMetric), At(s.confirmed, k, NoMetric))]
           /\ M.confirmedOver = t.confirmedOver + s.confirmedOver
                 + SumFunction([k \in DOMAIN s.confirmed \ LetIn(t.confirmed, s.confirmed) |->
                                s.confirmed[k].count])
           /\ M.methods = [k \in LetIn(t.methods, s.methods) |->
                 MergeMethod(At(t.methods, k, NoMethod), At(s.methods, k, NoMethod))]
           /\ M.methodsOver = t.methodsOver + s.methodsOver
                 + SumFunction([k \in DOMAIN s.methods \ LetIn(t.methods, s.methods) |->
                                AtLeastOne(s.methods[k].asked)])

\* The parts of two merged buckets.
LEMMA MergeParts ==
    ASSUME NEW t, NEW s, NEW M, M = MergeBucket(t, s)
    PROVE  Merges(M, t, s)
  BY DEF MergeBucket, Merges

\* Merging adds what the funnel stages count.
LEMMA MergeStages ==
    ASSUME NEW t, NEW s, IsBucket(t), IsBucket(s), NEW M, M = MergeBucket(t, s)
    PROVE  M.stages \in [Stages -> Metric] /\ InStages(M) = InStages(t) + InStages(s)
<1>1. M.stages = [g \in Stages |-> MergeMetric(t.stages[g], s.stages[g])]
  <2>1. Merges(M, t, s)
    BY MergeParts
  <2> QED
    BY <2>1, Zenon DEF Merges
<1>2. \A g \in Stages : t.stages[g] \in Metric /\ s.stages[g] \in Metric
  BY DEF IsBucket
<1>3. \A x, y \in Metric : MergeMetric(x, y) \in Metric /\ MergeMetric(x, y).count = x.count + y.count
  BY DEF MergeMetric, Metric
<1>4. PICK f, g, h : /\ f = [x \in Stages |-> t.stages[x].count]
                     /\ g = [x \in Stages |-> s.stages[x].count]
                     /\ h = [x \in Stages |-> M.stages[x].count]
  OBVIOUS
<1>5. \A x \in Stages : f[x] \in Int /\ g[x] \in Int /\ h[x] = f[x] + g[x]
  BY <1>1, <1>2, <1>3, <1>4 DEF Metric
<1>6. /\ DOMAIN f = Stages /\ DOMAIN g = Stages /\ DOMAIN h = Stages /\ IsFiniteSet(DOMAIN h)
  BY <1>4, CoverageAssumption
<1>7. SumFunction(h) = SumFunction(f) + SumFunction(g)
  BY <1>5, <1>6, TotalOfPlus
<1>8. M.stages \in [Stages -> Metric]
  BY <1>1, <1>2, <1>3
<1> QED
  BY <1>4, <1>7, <1>8, Zenon DEF InStages

\* Merging adds what the confirmation keys count: those let in, and those that overflow.
LEMMA MergeConfirmed ==
    ASSUME NEW t, NEW s, IsBucket(t), IsBucket(s), NEW M, M = MergeBucket(t, s)
    PROVE  /\ Keyed(M.confirmed, Metric) /\ M.confirmedOver \in Nat
           /\ InConfirmed(M) + M.confirmedOver
                 = (InConfirmed(t) + t.confirmedOver) + (InConfirmed(s) + s.confirmedOver)
<1>1. PICK A, B, in : A = DOMAIN t.confirmed /\ B = DOMAIN s.confirmed
                      /\ in = LetIn(t.confirmed, s.confirmed)
  OBVIOUS
<1>2. A \subseteq in /\ in \subseteq A \cup B
  BY <1>1, LetInBetween
<1>3. /\ IsFiniteSet(A) /\ IsFiniteSet(B)
      /\ \A k \in A : t.confirmed[k] \in Metric
      /\ \A k \in B : s.confirmed[k] \in Metric
      /\ t.confirmedOver \in Nat /\ s.confirmedOver \in Nat
  BY <1>1 DEF IsBucket, Keyed
<1>4. IsFiniteSet(in) /\ IsFiniteSet(B \ in)
  <2>1. IsFiniteSet(A \cup B)
    BY <1>3, FS_Union
  <2> QED
    BY <1>2, <1>3, <2>1, FS_Subset
<1>5. PICK f, g, h, r :
         /\ f = [k \in A |-> t.confirmed[k].count]
         /\ g = [k \in B |-> s.confirmed[k].count]
         /\ h = [k \in in |-> M.confirmed[k].count]
         /\ r = [k \in DOMAIN s.confirmed \ LetIn(t.confirmed, s.confirmed) |-> s.confirmed[k].count]
  OBVIOUS
<1>6. /\ DOMAIN M.confirmed = in
      /\ \A k \in in : M.confirmed[k] =
            MergeMetric(At(t.confirmed, k, NoMetric), At(s.confirmed, k, NoMetric))
      /\ M.confirmedOver = t.confirmedOver + s.confirmedOver + SumFunction(r)
  <2>1. Merges(M, t, s)
    BY MergeParts
  <2>2. /\ M.confirmed = [k \in LetIn(t.confirmed, s.confirmed) |->
                 MergeMetric(At(t.confirmed, k, NoMetric), At(s.confirmed, k, NoMetric))]
        /\ M.confirmedOver = t.confirmedOver + s.confirmedOver + SumFunction(r)
    BY <1>5, <2>1, Zenon DEF Merges
  <2> QED
    BY <1>1, <2>2
<1>7. \A x, y \in Metric : MergeMetric(x, y) \in Metric /\ MergeMetric(x, y).count = x.count + y.count
  BY DEF MergeMetric, Metric
<1>8. NoMetric \in Metric /\ NoMetric.count = 0
  BY DEF NoMetric, Metric
<1>9. ASSUME NEW k \in in
      PROVE  /\ M.confirmed[k] \in Metric
             /\ h[k] = (IF k \in A THEN f[k] ELSE 0) + (IF k \in B THEN g[k] ELSE 0)
  <2>1. PICK x, y : x = At(t.confirmed, k, NoMetric) /\ y = At(s.confirmed, k, NoMetric)
    OBVIOUS
  <2>2. x \in Metric /\ x.count = (IF k \in A THEN f[k] ELSE 0)
    BY <1>1, <1>3, <1>5, <1>8, <2>1 DEF At
  <2>3. y \in Metric /\ y.count = (IF k \in B THEN g[k] ELSE 0)
    BY <1>1, <1>3, <1>5, <1>8, <2>1 DEF At
  <2>4. M.confirmed[k] = MergeMetric(x, y)
    BY <1>6, <2>1
  <2>5. h[k] = M.confirmed[k].count
    BY <1>5
  <2> QED
    BY <1>7, <2>2, <2>3, <2>4, <2>5
<1>10. /\ DOMAIN f = A /\ DOMAIN g = B /\ DOMAIN h = in /\ DOMAIN r = B \ in
       /\ \A k \in A : f[k] \in Nat
       /\ \A k \in B : g[k] \in Nat
       /\ \A k \in B \ in : r[k] = g[k] /\ r[k] \in Nat
  BY <1>1, <1>3, <1>5 DEF Metric
<1>11. SumFunction(h) + SumFunction(r) = SumFunction(f) + SumFunction(g)
  <2>1. /\ \A k \in DOMAIN f : f[k] \in Int
        /\ \A k \in DOMAIN g : g[k] \in Int
        /\ \A k \in DOMAIN r : r[k] \in Int /\ r[k] >= g[k]
        /\ \A k \in DOMAIN r : r[k] = g[k]
        /\ \A k \in DOMAIN h : h[k] = (IF k \in DOMAIN f THEN f[k] ELSE 0)
                                    + (IF k \in DOMAIN g THEN g[k] ELSE 0)
    BY <1>9, <1>10
  <2>2. /\ IsFiniteSet(DOMAIN f) /\ IsFiniteSet(DOMAIN g) /\ DOMAIN f \subseteq DOMAIN h
        /\ DOMAIN h \subseteq DOMAIN f \cup DOMAIN g /\ DOMAIN r = DOMAIN g \ DOMAIN h
    BY <1>2, <1>3, <1>10
  <2> QED
    BY <2>1, <2>2, TotalOfMerge
<1>12. SumFunction(r) \in Nat /\ SumFunction(h) \in Nat /\ SumFunction(f) \in Nat /\ SumFunction(g) \in Nat
  <2>1. \A k \in in : h[k] \in Nat
    BY <1>5, <1>9 DEF Metric
  <2> QED
    BY <1>3, <1>4, <1>10, <2>1, TotalOfNumbers
<1>13. DOMAIN M.confirmed = in
  BY <1>6
<1>14. Keyed(M.confirmed, Metric)
  BY <1>4, <1>9, <1>13 DEF Keyed
<1>15. InConfirmed(M) = SumFunction(h) /\ InConfirmed(t) = SumFunction(f) /\ InConfirmed(s) = SumFunction(g)
  BY <1>1, <1>5, <1>13 DEF InConfirmed
<1> QED
  BY <1>3, <1>6, <1>11, <1>12, <1>14, <1>15

\* Merging adds at least what the method keys count (a refused key adds one if it has no request).
LEMMA MergeMethods ==
    ASSUME NEW t, NEW s, IsBucket(t), IsBucket(s), NEW M, M = MergeBucket(t, s)
    PROVE  /\ Keyed(M.methods, Method) /\ M.methodsOver \in Nat
           /\ InMethods(M) + M.methodsOver
                 >= (InMethods(t) + t.methodsOver) + (InMethods(s) + s.methodsOver)
<1>1. PICK A, B, in : A = DOMAIN t.methods /\ B = DOMAIN s.methods
                      /\ in = LetIn(t.methods, s.methods)
  OBVIOUS
<1>2. A \subseteq in /\ in \subseteq A \cup B
  BY <1>1, LetInBetween
<1>3. /\ IsFiniteSet(A) /\ IsFiniteSet(B)
      /\ \A k \in A : t.methods[k] \in Method
      /\ \A k \in B : s.methods[k] \in Method
      /\ t.methodsOver \in Nat /\ s.methodsOver \in Nat
  BY <1>1 DEF IsBucket, Keyed
<1>4. IsFiniteSet(in) /\ IsFiniteSet(B \ in)
  <2>1. IsFiniteSet(A \cup B)
    BY <1>3, FS_Union
  <2> QED
    BY <1>2, <1>3, <2>1, FS_Subset
<1>5. PICK f, g, h, r :
         /\ f = [k \in A |-> t.methods[k].asked]
         /\ g = [k \in B |-> s.methods[k].asked]
         /\ h = [k \in in |-> M.methods[k].asked]
         /\ r = [k \in DOMAIN s.methods \ LetIn(t.methods, s.methods) |->
                 AtLeastOne(s.methods[k].asked)]
  OBVIOUS
<1>6. /\ DOMAIN M.methods = in
      /\ \A k \in in : M.methods[k] =
            MergeMethod(At(t.methods, k, NoMethod), At(s.methods, k, NoMethod))
      /\ M.methodsOver = t.methodsOver + s.methodsOver + SumFunction(r)
  <2>1. Merges(M, t, s)
    BY MergeParts
  <2>2. /\ M.methods = [k \in LetIn(t.methods, s.methods) |->
                 MergeMethod(At(t.methods, k, NoMethod), At(s.methods, k, NoMethod))]
        /\ M.methodsOver = t.methodsOver + s.methodsOver + SumFunction(r)
    BY <1>5, <2>1, Zenon DEF Merges
  <2> QED
    BY <1>1, <2>2
<1>7. \A x, y \in Method : MergeMethod(x, y) \in Method /\ MergeMethod(x, y).asked = x.asked + y.asked
  BY DEF MergeMethod, Method
<1>8. NoMethod \in Method /\ NoMethod.asked = 0
  BY DEF NoMethod, Method
<1>9. ASSUME NEW k \in in
      PROVE  /\ M.methods[k] \in Method
             /\ h[k] = (IF k \in A THEN f[k] ELSE 0) + (IF k \in B THEN g[k] ELSE 0)
  <2>1. PICK x, y : x = At(t.methods, k, NoMethod) /\ y = At(s.methods, k, NoMethod)
    OBVIOUS
  <2>2. x \in Method /\ x.asked = (IF k \in A THEN f[k] ELSE 0)
    BY <1>1, <1>3, <1>5, <1>8, <2>1 DEF At
  <2>3. y \in Method /\ y.asked = (IF k \in B THEN g[k] ELSE 0)
    BY <1>1, <1>3, <1>5, <1>8, <2>1 DEF At
  <2>4. M.methods[k] = MergeMethod(x, y)
    BY <1>6, <2>1
  <2>5. h[k] = M.methods[k].asked
    BY <1>5
  <2> QED
    BY <1>7, <2>2, <2>3, <2>4, <2>5
<1>10. /\ DOMAIN f = A /\ DOMAIN g = B /\ DOMAIN h = in /\ DOMAIN r = B \ in
       /\ \A k \in A : f[k] \in Nat
       /\ \A k \in B : g[k] \in Nat
       /\ \A k \in B \ in : r[k] >= g[k] /\ r[k] \in Nat
  BY <1>1, <1>3, <1>5 DEF Method, AtLeastOne
<1>11. SumFunction(h) + SumFunction(r) >= SumFunction(f) + SumFunction(g)
  <2>1. /\ \A k \in DOMAIN f : f[k] \in Int
        /\ \A k \in DOMAIN g : g[k] \in Int
        /\ \A k \in DOMAIN r : r[k] \in Int /\ r[k] >= g[k]
        /\ \A k \in DOMAIN h : h[k] = (IF k \in DOMAIN f THEN f[k] ELSE 0)
                                    + (IF k \in DOMAIN g THEN g[k] ELSE 0)
    BY <1>9, <1>10
  <2>2. /\ IsFiniteSet(DOMAIN f) /\ IsFiniteSet(DOMAIN g) /\ DOMAIN f \subseteq DOMAIN h
        /\ DOMAIN h \subseteq DOMAIN f \cup DOMAIN g /\ DOMAIN r = DOMAIN g \ DOMAIN h
    BY <1>2, <1>3, <1>10
  <2> QED
    BY <2>1, <2>2, TotalOfMerge
<1>12. SumFunction(r) \in Nat /\ SumFunction(h) \in Nat /\ SumFunction(f) \in Nat /\ SumFunction(g) \in Nat
  <2>1. \A k \in in : h[k] \in Nat
    BY <1>5, <1>9 DEF Method
  <2> QED
    BY <1>3, <1>4, <1>10, <2>1, TotalOfNumbers
<1>13. DOMAIN M.methods = in
  BY <1>6
<1>14. Keyed(M.methods, Method)
  BY <1>4, <1>9, <1>13 DEF Keyed
<1>15. InMethods(M) = SumFunction(h) /\ InMethods(t) = SumFunction(f) /\ InMethods(s) = SumFunction(g)
  BY <1>1, <1>5, <1>13 DEF InMethods
<1> QED
  BY <1>3, <1>6, <1>11, <1>12, <1>14, <1>15

\* Nothing is lost in a merge.
LEMMA MergeAdds ==
    ASSUME NEW t, NEW s, IsBucket(t), IsBucket(s)
    PROVE  /\ IsBucket(MergeBucket(t, s))
           /\ EventsIn(MergeBucket(t, s)).seen = EventsIn(t).seen + EventsIn(s).seen
           /\ EventsIn(MergeBucket(t, s)).asked >= EventsIn(t).asked + EventsIn(s).asked
<1> SUFFICES ASSUME NEW M, M = MergeBucket(t, s)
             PROVE  /\ IsBucket(M)
                    /\ EventsIn(M).seen = EventsIn(t).seen + EventsIn(s).seen
                    /\ EventsIn(M).asked >= EventsIn(t).asked + EventsIn(s).asked
  OBVIOUS
<1>1. M = [stages |-> M.stages, confirmed |-> M.confirmed, confirmedOver |-> M.confirmedOver,
           methods |-> M.methods, methodsOver |-> M.methodsOver]
  <2>1. Merges(M, t, s)
    BY MergeParts
  <2> QED
    BY <2>1, Zenon DEF Merges
<1>2. IsBucket(M)
  BY <1>1, MergeStages, MergeConfirmed, MergeMethods DEF IsBucket
<1>3. /\ InStages(M) = InStages(t) + InStages(s)
      /\ InConfirmed(M) + M.confirmedOver
            = (InConfirmed(t) + t.confirmedOver) + (InConfirmed(s) + s.confirmedOver)
      /\ InMethods(M) + M.methodsOver
            >= (InMethods(t) + t.methodsOver) + (InMethods(s) + s.methodsOver)
  BY MergeStages, MergeConfirmed, MergeMethods
<1>4. EventsIn(M).seen = EventsIn(t).seen + EventsIn(s).seen
  <2>1. \A B \in {M, t, s} : /\ InStages(B) \in Nat /\ InConfirmed(B) \in Nat /\ B.confirmedOver \in Nat
                            /\ EventsIn(B).seen = InStages(B) + B.confirmedOver + InConfirmed(B)
    BY <1>2, SumsOfBucket
  <2> QED
    BY <1>3, <2>1
<1>5. EventsIn(M).asked >= EventsIn(t).asked + EventsIn(s).asked
  <2>1. \A B \in {M, t, s} : /\ InMethods(B) \in Nat /\ B.methodsOver \in Nat
                            /\ EventsIn(B).asked = InMethods(B) + B.methodsOver
    BY <1>2, SumsOfBucket
  <2> QED
    BY <1>3, <2>1
<1> QED
  BY <1>2, <1>4, <1>5

-----------------------------------------------------------------------------
(* Counting one event                                                        *)

\* What an event makes of a bucket: seen and asked are what it adds.
Counts(B, C, seen, asked) ==
    /\ IsBucket(C) /\ seen \in Nat /\ asked \in Nat
    /\ EventsIn(C).seen = EventsIn(B).seen + seen
    /\ EventsIn(C).asked >= EventsIn(B).asked + asked

\* What two buckets stand for differs as their sums do.
LEMMA SameSums ==
    ASSUME NEW B, NEW C, IsBucket(B), IsBucket(C), NEW d \in Nat, NEW e \in Nat,
           InStages(C) + C.confirmedOver + InConfirmed(C)
               = InStages(B) + B.confirmedOver + InConfirmed(B) + d,
           InMethods(C) + C.methodsOver >= InMethods(B) + B.methodsOver + e
    PROVE  Counts(B, C, d, e)
<1>1. \A X \in {B, C} :
         /\ InStages(X) \in Nat /\ InConfirmed(X) \in Nat /\ InMethods(X) \in Nat
         /\ EventsIn(X).seen = InStages(X) + X.confirmedOver + InConfirmed(X)
         /\ EventsIn(X).asked = InMethods(X) + X.methodsOver
  BY SumsOfBucket
<1> QED
  BY <1>1 DEF Counts

\* record_funnel_stage counts its event once.
LEMMA FunnelCounts ==
    ASSUME NEW B, IsBucket(B), NEW s \in Stages, NEW m \in Bits
    PROVE  Counts(B, [B EXCEPT !.stages[s] = MergeMetric(@, [count |-> 1, bits |-> {m}])], 1, 0)
<1> SUFFICES ASSUME NEW C, C = [B EXCEPT !.stages[s] = MergeMetric(@, [count |-> 1, bits |-> {m}])]
             PROVE  Counts(B, C, 1, 0)
  OBVIOUS
<1>1. B.stages \in [Stages -> Metric]
  BY DEF IsBucket
<1>2. PICK one : one = MergeMetric(B.stages[s], [count |-> 1, bits |-> {m}])
  OBVIOUS
<1>3. one \in Metric /\ one.count = B.stages[s].count + 1
  BY <1>1, <1>2 DEF MergeMetric, Metric
<1>4. /\ C.stages = [B.stages EXCEPT ![s] = one]
      /\ C.confirmed = B.confirmed /\ C.confirmedOver = B.confirmedOver
      /\ C.methods = B.methods /\ C.methodsOver = B.methodsOver
      /\ C = [stages |-> C.stages, confirmed |-> C.confirmed, confirmedOver |-> C.confirmedOver,
              methods |-> C.methods, methodsOver |-> C.methodsOver]
  BY <1>2 DEF IsBucket
<1>5. C.stages \in [Stages -> Metric] /\ C.stages[s] = one
      /\ \A x \in Stages \ {s} : C.stages[x] = B.stages[x]
  BY <1>1, <1>3, <1>4
<1>6. IsBucket(C)
  BY <1>4, <1>5 DEF IsBucket
<1>7. InStages(C) = InStages(B) + 1
  <2>1. PICK f, g : f = [x \in Stages |-> C.stages[x].count] /\ g = [x \in Stages |-> B.stages[x].count]
    OBVIOUS
  <2>2. /\ IsFiniteSet(DOMAIN g) /\ s \in DOMAIN g /\ DOMAIN f = DOMAIN g
        /\ \A x \in DOMAIN g : f[x] \in Int /\ g[x] \in Int
        /\ \A x \in DOMAIN g \ {s} : f[x] = g[x]
        /\ f[s] = g[s] + 1
    BY <1>1, <1>3, <1>5, <2>1, CoverageAssumption DEF Metric
  <2>3. SumFunction(f) = SumFunction(g) - g[s] + f[s]
    BY <2>2, TotalWithOther
  <2>4. SumFunction(g) \in Int
    BY <2>2, TotalType
  <2>5. SumFunction(f) = SumFunction(g) + 1
    BY <2>2, <2>3, <2>4
  <2> QED
    BY <2>1, <2>5, Zenon DEF InStages
<1>8. InConfirmed(C) = InConfirmed(B) /\ InMethods(C) = InMethods(B)
  BY <1>4 DEF InConfirmed, InMethods
<1>9. C.confirmedOver = B.confirmedOver /\ C.methodsOver = B.methodsOver
  BY <1>4
<1>10. /\ InStages(C) + C.confirmedOver + InConfirmed(C)
             = InStages(B) + B.confirmedOver + InConfirmed(B) + 1
       /\ InMethods(C) + C.methodsOver >= InMethods(B) + B.methodsOver + 0
  <2>1. /\ InStages(B) \in Nat /\ InConfirmed(B) \in Nat /\ InMethods(B) \in Nat
        /\ B.confirmedOver \in Nat /\ B.methodsOver \in Nat
    BY SumsOfBucket
  <2> QED
    BY <1>7, <1>8, <1>9, <2>1
<1> HIDE DEF Counts
<1> QED
  BY <1>6, <1>10, SameSums

\* record_rpc_confirmation counts its event once, its key let in or not.
LEMMA ConfirmationCounts ==
    ASSUME NEW B, IsBucket(B), NEW k, NEW m \in Bits,
           NEW one, one = MergeMetric(At(B.confirmed, k, NoMetric), [count |-> 1, bits |-> {m}])
    PROVE  /\ Counts(B, [B EXCEPT !.confirmed = Put(@, k, one)], 1, 0)
           /\ Counts(B, [B EXCEPT !.confirmedOver = @ + 1], 1, 0)
<1> USE DEF Put
<1>1. /\ InStages(B) \in Nat /\ InConfirmed(B) \in Nat /\ InMethods(B) \in Nat
      /\ B.confirmedOver \in Nat /\ B.methodsOver \in Nat
  BY SumsOfBucket
<1>2. ASSUME NEW C, C = [B EXCEPT !.confirmed = Put(@, k, one)] PROVE Counts(B, C, 1, 0)
  <2>1. /\ C.confirmed = Put(B.confirmed, k, one) /\ C.stages = B.stages
        /\ C.confirmedOver = B.confirmedOver
        /\ C.methods = B.methods /\ C.methodsOver = B.methodsOver
        /\ C = [stages |-> C.stages, confirmed |-> C.confirmed, confirmedOver |-> C.confirmedOver,
                methods |-> C.methods, methodsOver |-> C.methodsOver]
    BY <1>2 DEF IsBucket
  <2>2. PICK D : D = DOMAIN B.confirmed
    OBVIOUS
  <2>3. /\ DOMAIN C.confirmed = D \cup {k} /\ C.confirmed[k] = one
        /\ \A x \in D \ {k} : C.confirmed[x] = B.confirmed[x]
        /\ IsFiniteSet(D) /\ \A x \in D : B.confirmed[x] \in Metric
    BY <2>1, <2>2 DEF IsBucket, Keyed
  <2>4. IsFiniteSet(D \cup {k})
    BY <2>3, FS_AddElement
  <2>5. one \in Metric /\ one.count = (IF k \in D THEN B.confirmed[k].count ELSE 0) + 1
    BY <2>2, <2>3 DEF At, MergeMetric, Metric, NoMetric
  <2>6. IsBucket(C)
    <3>1. Keyed(C.confirmed, Metric)
      BY <2>3, <2>4, <2>5 DEF Keyed
    <3> QED
      BY <2>1, <3>1 DEF IsBucket
  <2>7. InConfirmed(C) = InConfirmed(B) + 1
    <3>1. PICK g, h : /\ g = [x \in DOMAIN B.confirmed |-> B.confirmed[x].count]
                      /\ h = [x \in DOMAIN C.confirmed |-> C.confirmed[x].count]
      OBVIOUS
    <3>2. /\ DOMAIN g = D /\ DOMAIN h = D \cup {k}
          /\ \A x \in D : g[x] \in Int
          /\ \A x \in D \ {k} : h[x] = g[x]
          /\ h[k] = (IF k \in D THEN g[k] ELSE 0) + 1
      BY <2>2, <2>3, <2>5, <3>1 DEF Metric
    <3>3. SumFunction(h) = SumFunction(g) + 1
      BY <2>3, <3>2, TotalWithPut
    <3> QED
      BY <3>1, <3>3, Zenon DEF InConfirmed
  <2>8. InStages(C) = InStages(B) /\ InMethods(C) = InMethods(B)
    BY <2>1 DEF InStages, InMethods
  <2>9. C.confirmedOver = B.confirmedOver /\ C.methodsOver = B.methodsOver
    BY <2>1
  <2>10. /\ InStages(C) + C.confirmedOver + InConfirmed(C)
              = InStages(B) + B.confirmedOver + InConfirmed(B) + 1
         /\ InMethods(C) + C.methodsOver >= InMethods(B) + B.methodsOver + 0
    BY <1>1, <2>7, <2>8, <2>9
  <2> QED
    BY <2>6, <2>10, SameSums
<1>3. ASSUME NEW C, C = [B EXCEPT !.confirmedOver = @ + 1] PROVE Counts(B, C, 1, 0)
  <2>1. /\ C.confirmed = B.confirmed /\ C.stages = B.stages
        /\ C.confirmedOver = B.confirmedOver + 1
        /\ C.methods = B.methods /\ C.methodsOver = B.methodsOver
        /\ C = [stages |-> C.stages, confirmed |-> C.confirmed, confirmedOver |-> C.confirmedOver,
                methods |-> C.methods, methodsOver |-> C.methodsOver]
    BY <1>3 DEF IsBucket
  <2>2. IsBucket(C)
    BY <2>1 DEF IsBucket
  <2>3. InStages(C) = InStages(B) /\ InMethods(C) = InMethods(B) /\ InConfirmed(C) = InConfirmed(B)
    BY <2>1 DEF InStages, InMethods, InConfirmed
  <2>4. C.confirmedOver = B.confirmedOver + 1 /\ C.methodsOver = B.methodsOver
    BY <2>1
  <2>5. /\ InStages(C) + C.confirmedOver + InConfirmed(C)
             = InStages(B) + B.confirmedOver + InConfirmed(B) + 1
        /\ InMethods(C) + C.methodsOver >= InMethods(B) + B.methodsOver + 0
    BY <1>1, <2>3, <2>4
  <2> QED
    BY <2>2, <2>5, SameSums
<1> HIDE DEF Put
<1> QED
  BY <1>2, <1>3, Zenon

\* record_rpc_method_metric counts its request, its key let in or not.
LEMMA MethodCounts ==
    ASSUME NEW B, IsBucket(B), NEW k, NEW e \in Method,
           NEW one, one = MergeMethod(At(B.methods, k, NoMethod), e)
    PROVE  /\ Counts(B, [B EXCEPT !.methods = Put(@, k, one)], 0, e.asked)
           /\ Counts(B, [B EXCEPT !.methodsOver = @ + AtLeastOne(e.asked + e.other)], 0, e.asked)
<1> USE DEF Put
<1>1. /\ InStages(B) \in Nat /\ InConfirmed(B) \in Nat /\ InMethods(B) \in Nat
      /\ B.confirmedOver \in Nat /\ B.methodsOver \in Nat
      /\ e.asked \in Nat /\ e.other \in Nat
  BY SumsOfBucket DEF Method
<1>2. ASSUME NEW C, C = [B EXCEPT !.methods = Put(@, k, one)] PROVE Counts(B, C, 0, e.asked)
  <2>1. /\ C.methods = Put(B.methods, k, one) /\ C.stages = B.stages
        /\ C.methodsOver = B.methodsOver
        /\ C.confirmed = B.confirmed /\ C.confirmedOver = B.confirmedOver
        /\ C = [stages |-> C.stages, confirmed |-> C.confirmed, confirmedOver |-> C.confirmedOver,
                methods |-> C.methods, methodsOver |-> C.methodsOver]
    BY <1>2 DEF IsBucket
  <2>2. PICK D : D = DOMAIN B.methods
    OBVIOUS
  <2>3. /\ DOMAIN C.methods = D \cup {k} /\ C.methods[k] = one
        /\ \A x \in D \ {k} : C.methods[x] = B.methods[x]
        /\ IsFiniteSet(D) /\ \A x \in D : B.methods[x] \in Method
    BY <2>1, <2>2 DEF IsBucket, Keyed
  <2>4. IsFiniteSet(D \cup {k})
    BY <2>3, FS_AddElement
  <2>5. one \in Method /\ one.asked = (IF k \in D THEN B.methods[k].asked ELSE 0) + e.asked
    BY <2>2, <2>3 DEF At, MergeMethod, Method, NoMethod
  <2>6. IsBucket(C)
    <3>1. Keyed(C.methods, Method)
      BY <2>3, <2>4, <2>5 DEF Keyed
    <3> QED
      BY <2>1, <3>1 DEF IsBucket
  <2>7. InMethods(C) = InMethods(B) + e.asked
    <3>1. PICK g, h : /\ g = [x \in DOMAIN B.methods |-> B.methods[x].asked]
                      /\ h = [x \in DOMAIN C.methods |-> C.methods[x].asked]
      OBVIOUS
    <3>2. /\ DOMAIN g = D /\ DOMAIN h = D \cup {k}
          /\ \A x \in D : g[x] \in Int
          /\ \A x \in D \ {k} : h[x] = g[x]
          /\ h[k] = (IF k \in D THEN g[k] ELSE 0) + e.asked
      BY <2>2, <2>3, <2>5, <3>1 DEF Method
    <3>3. PICK d \in Int : d = e.asked
      BY <1>1
    <3>4. h[k] = (IF k \in DOMAIN g THEN g[k] ELSE 0) + d
      BY <3>2, <3>3
    <3>5. SumFunction(h) = SumFunction(g) + d
      BY <2>3, <3>2, <3>4, TotalWithPut
    <3> QED
      BY <3>1, <3>3, <3>5, Zenon DEF InMethods
  <2>8. InStages(C) = InStages(B) /\ InConfirmed(C) = InConfirmed(B)
    BY <2>1 DEF InStages, InConfirmed
  <2>9. C.confirmedOver = B.confirmedOver /\ C.methodsOver = B.methodsOver
    BY <2>1
  <2>10. /\ InStages(C) + C.confirmedOver + InConfirmed(C)
              = InStages(B) + B.confirmedOver + InConfirmed(B) + 0
         /\ InMethods(C) + C.methodsOver >= InMethods(B) + B.methodsOver + e.asked
    BY <1>1, <2>7, <2>8, <2>9
  <2> QED
    BY <1>1, <2>6, <2>10, SameSums
<1>3. ASSUME NEW C, C = [B EXCEPT !.methodsOver = @ + AtLeastOne(e.asked + e.other)] PROVE Counts(B, C, 0, e.asked)
  <2>1. PICK n \in Nat : n = AtLeastOne(e.asked + e.other) /\ n >= e.asked
    BY <1>1 DEF AtLeastOne, Method
  <2>2. /\ C.confirmed = B.confirmed /\ C.stages = B.stages
        /\ C.methods = B.methods /\ C.methodsOver = B.methodsOver + n
        /\ C.confirmedOver = B.confirmedOver
        /\ C = [stages |-> C.stages, confirmed |-> C.confirmed, confirmedOver |-> C.confirmedOver,
                methods |-> C.methods, methodsOver |-> C.methodsOver]
    BY <1>3, <2>1 DEF IsBucket
  <2>3. IsBucket(C)
    BY <2>2 DEF IsBucket
  <2>4. InStages(C) = InStages(B) /\ InMethods(C) = InMethods(B) /\ InConfirmed(C) = InConfirmed(B)
    BY <2>2 DEF InStages, InMethods, InConfirmed
  <2>5. C.confirmedOver = B.confirmedOver /\ C.methodsOver = B.methodsOver + n
    BY <2>2
  <2>6. /\ InStages(C) + C.confirmedOver + InConfirmed(C)
             = InStages(B) + B.confirmedOver + InConfirmed(B) + 0
        /\ InMethods(C) + C.methodsOver >= InMethods(B) + B.methodsOver + e.asked
    BY <1>1, <2>1, <2>4, <2>5
  <2> QED
    BY <1>1, <2>3, <2>6, SameSums
<1> HIDE DEF Put
<1> QED
  BY <1>2, <1>3, Zenon

-----------------------------------------------------------------------------
(* Documents of buckets                                                      *)

\* Buckets of the times up to n.
AreCounts(R, n) == DOMAIN R \subseteq 0 .. n /\ \A b \in DOMAIN R : IsBucket(R[b])

\* A document stands for numbers, and for nothing at a time past n.
LEMMA EventsOfCounts ==
    ASSUME NEW R, NEW n \in Nat, AreCounts(R, n), NEW b
    PROVE  /\ EventsOf(R, b).seen \in Nat /\ EventsOf(R, b).asked \in Nat
           /\ b \notin 0 .. n => EventsOf(R, b).seen = 0 /\ EventsOf(R, b).asked = 0
<1>1. CASE b \in DOMAIN R
  BY <1>1, SumsOfBucket DEF AreCounts, EventsOf
<1>2. CASE b \notin DOMAIN R
  BY <1>2 DEF EventsOf, NoEvents
<1> QED
  BY <1>1, <1>2 DEF AreCounts

\* No limit of buckets forgets one that is retained at time n.
LEMMA NewestKeep ==
    ASSUME NEW n \in Nat, NEW S, S \subseteq 0 .. n, NEW b \in S, b + MaxBuckets > n
    PROVE  b \in NewestBuckets(S, MaxBuckets)
<1>1. MaxBuckets \in Nat \ {0} /\ b \in Nat /\ b <= n
  BY CoverageAssumption
<1>2. PICK U, V : U = {c \in S : c > b} /\ V = (b + 1) .. n
  OBVIOUS
<1>3. U \subseteq V
  <2>1. ASSUME NEW c \in U PROVE c \in V
    <3>1. c \in 0 .. n /\ c > b
      BY <1>2
    <3> QED
      BY <1>1, <1>2, <3>1
  <2> QED
    BY <2>1
<1>4. IsFiniteSet(V) /\ Cardinality(V) = n - b
  <2>1. PICK a \in Int : a = b + 1 /\ (a > n => n - b = 0) /\ n - a + 1 = n - b
    BY <1>1
  <2>2. IsFiniteSet(a .. n) /\ Cardinality(a .. n) = IF a > n THEN 0 ELSE n - a + 1
    BY FS_Interval
  <2>3. V = a .. n
    BY <1>2, <2>1
  <2> QED
    BY <2>1, <2>2, <2>3
<1>5. Cardinality(U) <= Cardinality(V) /\ IsFiniteSet(U)
  BY <1>3, <1>4, FS_Subset
<1>6. Cardinality(U) \in Nat
  BY <1>5, FS_CardinalityType
<1>7. Cardinality(U) < MaxBuckets
  BY <1>1, <1>4, <1>5, <1>6
<1> QED
  BY <1>2, <1>7 DEF NewestBuckets

\* R counts of bucket b what P and Q count of it.
Joins(R, P, Q, b) == /\ EventsOf(R, b).seen = EventsOf(P, b).seen + EventsOf(Q, b).seen
                     /\ EventsOf(R, b).asked >= EventsOf(P, b).asked + EventsOf(Q, b).asked

\* Two documents merged on the times K, which has all of them that are retained.
LEMMA MergedAdds ==
    ASSUME NEW n \in Nat, NEW P, AreCounts(P, n), NEW Q, AreCounts(Q, n),
           NEW start, DOMAIN P \cup DOMAIN Q \subseteq start, start \subseteq 0 .. n,
           NEW K, K \subseteq start, NEW R, R = Restrict(MergeAll(P, Q, start), K)
    PROVE  /\ AreCounts(R, n)
           /\ \A b : (b \in start => b \in K) => Joins(R, P, Q, b)
<1>1. DOMAIN R = K /\ \A b \in K : R[b] = MergeBucket(At(P, b, EmptyBucket), At(Q, b, EmptyBucket))
  BY DEF Restrict, MergeAll
<1>2. ASSUME NEW b
      PROVE  /\ IsBucket(At(P, b, EmptyBucket)) /\ IsBucket(At(Q, b, EmptyBucket))
             /\ EventsIn(At(P, b, EmptyBucket)).seen = EventsOf(P, b).seen
             /\ EventsIn(At(P, b, EmptyBucket)).asked = EventsOf(P, b).asked
             /\ EventsIn(At(Q, b, EmptyBucket)).seen = EventsOf(Q, b).seen
             /\ EventsIn(At(Q, b, EmptyBucket)).asked = EventsOf(Q, b).asked
  BY EmptyIsBucket DEF At, EventsOf, NoEvents, AreCounts
<1>3. AreCounts(R, n)
  BY <1>1, <1>2, MergeAdds DEF AreCounts
<1>4. ASSUME NEW b, b \in start => b \in K
      PROVE  /\ EventsOf(R, b).seen = EventsOf(P, b).seen + EventsOf(Q, b).seen
             /\ EventsOf(R, b).asked >= EventsOf(P, b).asked + EventsOf(Q, b).asked
  <2>1. CASE b \in K
    <3>1. EventsOf(R, b) = EventsIn(MergeBucket(At(P, b, EmptyBucket), At(Q, b, EmptyBucket)))
      BY <1>1, <2>1 DEF EventsOf
    <3> QED
      BY <1>2, <3>1, MergeAdds
  <2>2. CASE b \notin K
    <3>1. b \notin DOMAIN P /\ b \notin DOMAIN Q /\ b \notin DOMAIN R
      BY <1>1, <1>4, <2>2
    <3> QED
      BY <3>1 DEF EventsOf, NoEvents
  <2> QED
    BY <2>1, <2>2
<1> QED
  BY <1>3, <1>4 DEF Joins

-----------------------------------------------------------------------------
(* What the process, its flushes and the documents hold of a bucket          *)

\* No buckets, no events.
LEMMA EventsOfNone ==
    ASSUME NEW b
    PROVE  EventsOf(<<>>, b).seen = 0 /\ EventsOf(<<>>, b).asked = 0
<1>1. DOMAIN <<>> = {}
  OBVIOUS
<1> QED
  BY <1>1 DEF EventsOf, NoEvents

\* InFlight of flushes F.
Flight(F, b) == [seen  |-> SumFunction([f \in Flushes |-> EventsOf(F[f].taken, b).seen]),
                 asked |-> SumFunction([f \in Flushes |-> EventsOf(F[f].taken, b).asked])]

Takings(F, n) == \A f \in Flushes : AreCounts(F[f].taken, n)
OneDiffers(F, G, f) == \A g \in Flushes \ {f} : G[g] = F[g]

\* What flushes hold is numbers, and nothing at a time past n.
LEMMA FlightType ==
    ASSUME NEW n \in Nat, NEW F, Takings(F, n), NEW b
    PROVE  /\ Flight(F, b).seen \in Nat /\ Flight(F, b).asked \in Nat
           /\ b \notin 0 .. n => Flight(F, b).seen = 0 /\ Flight(F, b).asked = 0
<1>1. PICK g, h : /\ g = [f \in Flushes |-> EventsOf(F[f].taken, b).seen]
                  /\ h = [f \in Flushes |-> EventsOf(F[f].taken, b).asked]
  OBVIOUS
<1>2. /\ IsFiniteSet(DOMAIN g) /\ IsFiniteSet(DOMAIN h)
      /\ \A f \in DOMAIN g : g[f] \in Nat /\ (b \notin 0 .. n => g[f] = 0)
      /\ \A f \in DOMAIN h : h[f] \in Nat /\ (b \notin 0 .. n => h[f] = 0)
  BY <1>1, EventsOfCounts, CoverageAssumption DEF Takings
<1>3. /\ SumFunction(g) \in Nat /\ SumFunction(h) \in Nat
      /\ b \notin 0 .. n => SumFunction(g) = 0 /\ SumFunction(h) = 0
  BY <1>2, TotalOfNumbers, TotalOfZeros
<1>4. Flight(F, b) = [seen |-> SumFunction(g), asked |-> SumFunction(h)]
  BY <1>1, Zenon DEF Flight
<1> QED
  BY <1>3, <1>4

\* One flush is another one.
LEMMA FlightChanges ==
    ASSUME NEW n \in Nat, NEW F, NEW G, NEW f \in Flushes,
           Takings(F, n), Takings(G, n), OneDiffers(F, G, f), NEW b
    PROVE  /\ Flight(G, b).seen = Flight(F, b).seen - EventsOf(F[f].taken, b).seen
                                      + EventsOf(G[f].taken, b).seen
           /\ Flight(G, b).asked = Flight(F, b).asked - EventsOf(F[f].taken, b).asked
                                      + EventsOf(G[f].taken, b).asked
<1>1. PICK g, h, p, q : /\ g = [x \in Flushes |-> EventsOf(F[x].taken, b).seen]
                        /\ h = [x \in Flushes |-> EventsOf(F[x].taken, b).asked]
                        /\ p = [x \in Flushes |-> EventsOf(G[x].taken, b).seen]
                        /\ q = [x \in Flushes |-> EventsOf(G[x].taken, b).asked]
  OBVIOUS
<1>2. /\ DOMAIN g = Flushes /\ DOMAIN h = Flushes /\ DOMAIN p = Flushes /\ DOMAIN q = Flushes
      /\ IsFiniteSet(Flushes)
      /\ \A x \in Flushes : g[x] \in Int /\ h[x] \in Int /\ p[x] \in Int /\ q[x] \in Int
      /\ \A x \in Flushes \ {f} : p[x] = g[x] /\ q[x] = h[x]
  BY <1>1, EventsOfCounts, CoverageAssumption DEF Takings, OneDiffers
<1>3. SumFunction(p) = SumFunction(g) - g[f] + p[f]
  BY <1>2, TotalWithOther
<1>4. SumFunction(q) = SumFunction(h) - h[f] + q[f]
  BY <1>2, TotalWithOther
<1>5. /\ Flight(F, b) = [seen |-> SumFunction(g), asked |-> SumFunction(h)]
      /\ Flight(G, b) = [seen |-> SumFunction(p), asked |-> SumFunction(q)]
  BY <1>1, Zenon DEF Flight
<1>6. /\ g[f] = EventsOf(F[f].taken, b).seen /\ h[f] = EventsOf(F[f].taken, b).asked
      /\ p[f] = EventsOf(G[f].taken, b).seen /\ q[f] = EventsOf(G[f].taken, b).asked
  BY <1>1
<1>7. /\ Flight(F, b).seen = SumFunction(g) /\ Flight(F, b).asked = SumFunction(h)
      /\ Flight(G, b).seen = SumFunction(p) /\ Flight(G, b).asked = SumFunction(q)
  BY <1>5
<1> QED
  BY <1>3, <1>4, <1>6, <1>7

FlushOK(x, n) ==
    /\ x = [at |-> x.at, now |-> x.now, taken |-> x.taken, roll |-> x.roll, doc |-> x.doc]
    /\ x.now \in 0 .. n /\ AreCounts(x.taken, n)
    /\ x.at # "taken" => x.taken = <<>>

Tallies == [seen : Nat, asked : Nat]

\* What is held of bucket b is what was recorded.
Balanced(b) ==
    /\ (EventsOf(raw, b).seen + EventsOf(pending, b).seen) + (Flight(flush, b).seen + diedWith[b].seen)
          = recorded[b].seen
    /\ (EventsOf(raw, b).asked + EventsOf(pending, b).asked) + (Flight(flush, b).asked + diedWith[b].asked)
          >= recorded[b].asked

HoldingsOK ==
    /\ now \in 0 .. MaxTime /\ AreCounts(pending, now) /\ AreCounts(raw, now)
    /\ flush = [f \in Flushes |-> flush[f]] /\ \A f \in Flushes : FlushOK(flush[f], now)
    /\ recorded \in [0 .. MaxTime -> Tallies] /\ diedWith \in [0 .. MaxTime -> Tallies]
    /\ \A b \in 0 .. MaxTime : b > now => recorded[b] = NoEvents /\ diedWith[b] = NoEvents

\* The inductive invariant behind CountsAddUp.
CountsInv == HoldingsOK /\ \A b \in 0 .. now : b + MaxBuckets > now => Balanced(b)

\* The invariant says what CountsAddUp says.
LEMMA InvAddsUp == CountsInv => CountsAddUp
<1> SUFFICES ASSUME CountsInv, NEW b \in 0 .. now, b + MaxBuckets > now
             PROVE  LET kept == Plus(Plus(EventsOf(raw, b), EventsOf(pending, b)),
                                     Plus(InFlight(b), diedWith[b]))
                    IN  kept.seen = recorded[b].seen /\ kept.asked >= recorded[b].asked
  BY DEF CountsAddUp
<1>1. Balanced(b)
  BY DEF CountsInv
<1>2. InFlight(b) = Flight(flush, b)
  BY DEF InFlight, Flight
<1> QED
  BY <1>1, <1>2 DEF Balanced, Plus

\* The numbers of a bucket.
LEMMA HoldingNumbers ==
    ASSUME HoldingsOK, NEW b
    PROVE  /\ now \in Nat /\ MaxTime \in Nat
           /\ EventsOf(raw, b).seen \in Nat /\ EventsOf(raw, b).asked \in Nat
           /\ EventsOf(pending, b).seen \in Nat /\ EventsOf(pending, b).asked \in Nat
           /\ Flight(flush, b).seen \in Nat /\ Flight(flush, b).asked \in Nat
           /\ b \in 0 .. MaxTime => /\ recorded[b].seen \in Nat /\ recorded[b].asked \in Nat
                                    /\ diedWith[b].seen \in Nat /\ diedWith[b].asked \in Nat
           /\ b \notin 0 .. now =>
                 /\ EventsOf(raw, b).seen = 0 /\ EventsOf(raw, b).asked = 0
                 /\ EventsOf(pending, b).seen = 0 /\ EventsOf(pending, b).asked = 0
                 /\ Flight(flush, b).seen = 0 /\ Flight(flush, b).asked = 0
<1>1. now \in Nat /\ MaxTime \in Nat
  BY CoverageAssumption DEF HoldingsOK
<1>2. Takings(flush, now)
  BY DEF HoldingsOK, FlushOK, Takings
<1>3. AreCounts(raw, now) /\ AreCounts(pending, now)
  BY DEF HoldingsOK
<1>4. b \in 0 .. MaxTime => /\ recorded[b].seen \in Nat /\ recorded[b].asked \in Nat
                            /\ diedWith[b].seen \in Nat /\ diedWith[b].asked \in Nat
  BY DEF HoldingsOK, Tallies
<1> QED
  BY <1>1, <1>2, <1>3, <1>4, EventsOfCounts, FlightType

-----------------------------------------------------------------------------
(* The steps                                                                 *)

\* An event of a retained bucket is added to what is pending, and to what was recorded.
LEMMA CountStep ==
    ASSUME CountsInv, NEW c \in 0 .. now, NEW B, NEW seen, NEW asked,
           Counts(At(pending, c, EmptyBucket), B, seen, asked), CountIn(c, B, seen, asked)
    PROVE  CountsInv'
<1>1. /\ now \in Nat /\ now <= MaxTime /\ c \in Nat /\ c <= now /\ c \in 0 .. MaxTime
      /\ AreCounts(pending, now)
  BY CoverageAssumption DEF CountsInv, HoldingsOK
<1>2. /\ pending' = Restrict(Put(pending, c, B), NewestBuckets(DOMAIN pending \cup {c}, MaxBuckets))
      /\ recorded' = [recorded EXCEPT ![c] = Plus(@, [seen |-> seen, asked |-> asked])]
      /\ now' = now /\ flush' = flush /\ raw' = raw /\ diedWith' = diedWith
  BY DEF CountIn, PendingBucket
<1>3. /\ IsBucket(B) /\ seen \in Nat /\ asked \in Nat
      /\ EventsIn(B).seen = EventsOf(pending, c).seen + seen
      /\ EventsIn(B).asked >= EventsOf(pending, c).asked + asked
  BY EmptyIsBucket DEF Counts, At, EventsOf, NoEvents
<1>4. PICK S, K : S = DOMAIN pending \cup {c} /\ K = NewestBuckets(S, MaxBuckets)
  OBVIOUS
<1>5. S \subseteq 0 .. now /\ K \subseteq S
  BY <1>1, <1>4 DEF AreCounts, NewestBuckets
<1>6. /\ DOMAIN pending' = K
      /\ \A b \in K : pending'[b] = IF b = c THEN B ELSE pending[b]
  BY <1>2, <1>4, <1>5 DEF Restrict, Put
<1>7. AreCounts(pending', now)
  BY <1>1, <1>3, <1>4, <1>5, <1>6 DEF AreCounts
<1>8. ASSUME NEW b \in 0 .. now, b + MaxBuckets > now
      PROVE  EventsOf(pending', b) = IF b = c THEN EventsIn(B) ELSE EventsOf(pending, b)
  <2>1. b \in S => b \in K
    BY <1>1, <1>4, <1>5, <1>8, NewestKeep
  <2> QED
    BY <1>4, <1>5, <1>6, <2>1 DEF EventsOf
<1>9. /\ \A b \in 0 .. MaxTime \ {c} : recorded'[b] = recorded[b]
      /\ recorded[c] \in Tallies /\ recorded'[c] = Plus(recorded[c], [seen |-> seen, asked |-> asked])
      /\ recorded' \in [0 .. MaxTime -> Tallies]
  BY <1>1, <1>2, <1>3 DEF CountsInv, HoldingsOK, Tallies, Plus
<1>10. /\ recorded'[c].seen = recorded[c].seen + seen
       /\ recorded'[c].asked = recorded[c].asked + asked
  BY <1>9 DEF Plus
<1>11. HoldingsOK'
  BY <1>1, <1>2, <1>7, <1>9 DEF CountsInv, HoldingsOK
<1>12. ASSUME NEW b \in 0 .. now, b + MaxBuckets > now PROVE Balanced(b)'
  <2>1. Balanced(b) /\ b \in 0 .. MaxTime
    <3>1. Balanced(b)
      BY <1>12 DEF CountsInv
    <3>2. b \in 0 .. MaxTime
      BY <1>1, <1>12, CoverageAssumption
    <3> QED
      BY <3>1, <3>2
  <2>2. /\ EventsOf(raw, b).seen \in Nat /\ EventsOf(raw, b).asked \in Nat
        /\ EventsOf(pending, b).seen \in Nat /\ EventsOf(pending, b).asked \in Nat
        /\ Flight(flush, b).seen \in Nat /\ Flight(flush, b).asked \in Nat
        /\ recorded[b].seen \in Nat /\ recorded[b].asked \in Nat
        /\ diedWith[b].seen \in Nat /\ diedWith[b].asked \in Nat
    BY <2>1, HoldingNumbers DEF CountsInv
  <2>3. CASE b = c
    <3>1. EventsOf(pending', b) = EventsIn(B)
      BY <1>8, <1>12, <2>3
    <3>2. PICK n \in Nat : n = EventsIn(B).asked
      BY <1>3, SumsOfBucket
    <3> QED
      BY <1>2, <1>3, <1>10, <2>1, <2>2, <2>3, <3>1, <3>2 DEF Balanced
  <2>4. CASE b # c
    <3>1. EventsOf(pending', b) = EventsOf(pending, b) /\ recorded'[b] = recorded[b]
      BY <1>8, <1>9, <1>12, <2>1, <2>4
    <3> QED
      BY <1>2, <2>1, <3>1 DEF Balanced
  <2> QED
    BY <2>3, <2>4
<1> QED
  BY <1>2, <1>11, <1>12 DEF CountsInv

\* A step that moves what is held and records nothing.
LEMMA MoveStep ==
    ASSUME CountsInv, HoldingsOK', now' = now, recorded' = recorded, diedWith' = diedWith,
           NEW f \in Flushes, OneDiffers(flush, flush', f),
           \A b \in 0 .. now : b + MaxBuckets > now =>
               /\ EventsOf(raw', b).seen + EventsOf(pending', b).seen + EventsOf(flush'[f].taken, b).seen
                    = EventsOf(raw, b).seen + EventsOf(pending, b).seen + EventsOf(flush[f].taken, b).seen
               /\ EventsOf(raw', b).asked + EventsOf(pending', b).asked + EventsOf(flush'[f].taken, b).asked
                    >= EventsOf(raw, b).asked + EventsOf(pending, b).asked + EventsOf(flush[f].taken, b).asked
    PROVE  CountsInv'
<1>1. HoldingsOK /\ now \in Nat /\ now <= MaxTime
  BY CoverageAssumption DEF CountsInv, HoldingsOK
<1>2. Takings(flush, now) /\ Takings(flush', now)
  BY <1>1 DEF HoldingsOK, FlushOK, Takings
<1>3. AreCounts(raw, now) /\ AreCounts(pending, now) /\ AreCounts(raw', now) /\ AreCounts(pending', now)
  BY <1>1 DEF HoldingsOK
<1>4. ASSUME NEW b \in 0 .. now, b + MaxBuckets > now PROVE Balanced(b)'
  <2>1. Balanced(b) /\ b \in 0 .. MaxTime
    <3>1. Balanced(b)
      BY <1>4 DEF CountsInv
    <3>2. b \in 0 .. MaxTime
      BY <1>1, <1>4, CoverageAssumption
    <3> QED
      BY <3>1, <3>2
  <2>2. /\ Flight(flush', b).seen = Flight(flush, b).seen - EventsOf(flush[f].taken, b).seen
                                       + EventsOf(flush'[f].taken, b).seen
        /\ Flight(flush', b).asked = Flight(flush, b).asked - EventsOf(flush[f].taken, b).asked
                                       + EventsOf(flush'[f].taken, b).asked
    <3>1. PICK F, G, n : F = flush /\ G = flush' /\ n = now
      OBVIOUS
    <3>2. Takings(F, n) /\ Takings(G, n) /\ OneDiffers(F, G, f)
      <4>1. OneDiffers(F, G, f)
        BY <3>1 DEF OneDiffers
      <4>2. Takings(F, n)
        BY <1>2, <3>1
      <4>3. Takings(G, n)
        BY <1>2, <3>1
      <4> QED
        BY <4>1, <4>2, <4>3
    <3>3. /\ Flight(G, b).seen = Flight(F, b).seen - EventsOf(F[f].taken, b).seen
                                      + EventsOf(G[f].taken, b).seen
          /\ Flight(G, b).asked = Flight(F, b).asked - EventsOf(F[f].taken, b).asked
                                      + EventsOf(G[f].taken, b).asked
      BY <1>1, <3>1, <3>2, FlightChanges
    <3> QED
      BY <3>1, <3>3
  <2>3. /\ EventsOf(raw, b).seen \in Nat /\ EventsOf(raw, b).asked \in Nat
        /\ EventsOf(pending, b).seen \in Nat /\ EventsOf(pending, b).asked \in Nat
        /\ Flight(flush, b).seen \in Nat /\ Flight(flush, b).asked \in Nat
        /\ recorded[b].seen \in Nat /\ recorded[b].asked \in Nat
        /\ diedWith[b].seen \in Nat /\ diedWith[b].asked \in Nat
    BY <1>1, <2>1, HoldingNumbers
  <2>4. /\ EventsOf(raw', b).seen \in Nat /\ EventsOf(raw', b).asked \in Nat
        /\ EventsOf(pending', b).seen \in Nat /\ EventsOf(pending', b).asked \in Nat
        /\ EventsOf(flush[f].taken, b).seen \in Nat /\ EventsOf(flush[f].taken, b).asked \in Nat
        /\ EventsOf(flush'[f].taken, b).seen \in Nat /\ EventsOf(flush'[f].taken, b).asked \in Nat
    BY <1>1, <1>2, <1>3, EventsOfCounts DEF Takings
  <2>5. /\ (EventsOf(raw, b).seen + EventsOf(pending, b).seen) + (Flight(flush, b).seen + diedWith[b].seen)
              = recorded[b].seen
        /\ (EventsOf(raw, b).asked + EventsOf(pending, b).asked) + (Flight(flush, b).asked + diedWith[b].asked)
              >= recorded[b].asked
    BY <2>1 DEF Balanced
  <2>6. /\ (EventsOf(raw', b).seen + EventsOf(pending', b).seen) + (Flight(flush', b).seen + diedWith[b].seen)
              = recorded[b].seen
        /\ (EventsOf(raw', b).asked + EventsOf(pending', b).asked) + (Flight(flush', b).asked + diedWith[b].asked)
              >= recorded[b].asked
    BY <1>4, <2>2, <2>3, <2>4, <2>5
  <2> QED
    BY <2>6 DEF Balanced
<1> QED
  BY <1>4 DEF CountsInv

\* The flush f of a step that leaves the other flushes, the clock and the history alone.
LEMMA HoldingsMove ==
    ASSUME HoldingsOK, now' = now, recorded' = recorded, diedWith' = diedWith,
           AreCounts(raw', now), AreCounts(pending', now),
           NEW f \in Flushes, NEW x, flush' = [flush EXCEPT ![f] = x], FlushOK(x, now)
    PROVE  HoldingsOK' /\ flush'[f] = x /\ OneDiffers(flush, flush', f)
<1>1. /\ flush' = [g \in Flushes |-> flush'[g]] /\ flush'[f] = x
      /\ \A g \in Flushes \ {f} : flush'[g] = flush[g]
  BY DEF HoldingsOK
<1>2. \A g \in Flushes : FlushOK(flush'[g], now)
  BY <1>1 DEF HoldingsOK
<1>3. HoldingsOK'
  BY <1>1, <1>2 DEF HoldingsOK
<1> QED
  BY <1>1, <1>3 DEF OneDiffers

\* A document without buckets is one of any time.
LEMMA NoCounts == ASSUME NEW n PROVE AreCounts(<<>>, n)
<1>1. DOMAIN <<>> = {}
  OBVIOUS
<1> QED
  BY <1>1 DEF AreCounts

\* A flush that does not run holds nothing.
LEMMA NoFlushIsOK ==
    ASSUME NEW n \in Nat
    PROVE  FlushOK(NoFlush, n) /\ NoFlush.taken = <<>>
  BY NoCounts DEF FlushOK, NoFlush

\* What a flush takes, the process no longer has.
LEMMA BeginStep ==
    ASSUME CountsInv, NEW f \in Flushes, BeginFlush(f)
    PROVE  CountsInv'
<1>1. PICK roll \in BOOLEAN :
         flush' = [flush EXCEPT ![f] = [at |-> "taken", now |-> now, taken |-> pending,
                                        roll |-> roll, doc |-> <<>>]]
  BY DEF BeginFlush
<1>2. PICK x : x = [at |-> "taken", now |-> now, taken |-> pending, roll |-> roll, doc |-> <<>>]
  OBVIOUS
<1>3. HoldingsOK /\ now \in Nat /\ flush[f].at = "none" /\ pending' = <<>> /\ raw' = raw
      /\ now' = now /\ recorded' = recorded /\ diedWith' = diedWith
  BY CoverageAssumption DEF BeginFlush, CountsInv, HoldingsOK
<1>4. FlushOK(x, now) /\ x.taken = pending
  BY <1>2, <1>3 DEF FlushOK, HoldingsOK
<1>5. HoldingsOK' /\ flush'[f] = x /\ OneDiffers(flush, flush', f)
  <2>1. AreCounts(raw', now) /\ AreCounts(pending', now)
    BY <1>3, NoCounts DEF HoldingsOK
  <2> QED
    BY <1>1, <1>2, <1>3, <1>4, <2>1, HoldingsMove
<1>6. flush[f].taken = <<>> /\ flush'[f].taken = pending
  BY <1>3, <1>4, <1>5 DEF HoldingsOK, FlushOK
<1>7. ASSUME NEW b
      PROVE  /\ EventsOf(raw', b).seen + EventsOf(pending', b).seen + EventsOf(flush'[f].taken, b).seen
                = EventsOf(raw, b).seen + EventsOf(pending, b).seen + EventsOf(flush[f].taken, b).seen
             /\ EventsOf(raw', b).asked + EventsOf(pending', b).asked + EventsOf(flush'[f].taken, b).asked
                = EventsOf(raw, b).asked + EventsOf(pending, b).asked + EventsOf(flush[f].taken, b).asked
             /\ EventsOf(raw', b).asked + EventsOf(pending', b).asked + EventsOf(flush'[f].taken, b).asked \in Nat
  <2>1. /\ EventsOf(pending', b).seen = 0 /\ EventsOf(pending', b).asked = 0
        /\ EventsOf(flush[f].taken, b).seen = 0 /\ EventsOf(flush[f].taken, b).asked = 0
    BY <1>3, <1>6, EventsOfNone
  <2>2. /\ EventsOf(raw, b).seen \in Nat /\ EventsOf(raw, b).asked \in Nat
        /\ EventsOf(pending, b).seen \in Nat /\ EventsOf(pending, b).asked \in Nat
    BY <1>3, HoldingNumbers
  <2>3. EventsOf(flush'[f].taken, b) = EventsOf(pending, b) /\ EventsOf(raw', b) = EventsOf(raw, b)
    BY <1>3, <1>6
  <2> QED
    BY <2>1, <2>2, <2>3
<1>8. \A b \in 0 .. now : b + MaxBuckets > now =>
         /\ EventsOf(raw', b).seen + EventsOf(pending', b).seen + EventsOf(flush'[f].taken, b).seen
              = EventsOf(raw, b).seen + EventsOf(pending, b).seen + EventsOf(flush[f].taken, b).seen
         /\ EventsOf(raw', b).asked + EventsOf(pending', b).asked + EventsOf(flush'[f].taken, b).asked
              >= EventsOf(raw, b).asked + EventsOf(pending, b).asked + EventsOf(flush[f].taken, b).asked
  BY <1>7
<1> QED
  BY <1>3, <1>5, <1>8, MoveStep

\* What is saved the flush no longer holds, and the document has it, if it is retained.
LEMMA SaveStep ==
    ASSUME CountsInv, NEW f \in Flushes, SaveCounts(f)
    PROVE  CountsInv'
<1>1. /\ HoldingsOK /\ now \in Nat /\ pending' = pending /\ raw' = Merged(f)
      /\ now' = now /\ recorded' = recorded /\ diedWith' = diedWith
  BY CoverageAssumption DEF SaveCounts, CountsInv, HoldingsOK
<1>2. PICK time, taken : time = flush[f].now /\ taken = flush[f].taken
  OBVIOUS
<1>3. /\ time \in 0 .. now /\ AreCounts(taken, now) /\ AreCounts(raw, now) /\ AreCounts(pending, now)
      /\ FlushOK(flush[f], now)
  BY <1>1, <1>2 DEF HoldingsOK, FlushOK
<1>4. PICK start, all, L, K :
         /\ start = DOMAIN raw \cup DOMAIN taken \cup {time}
         /\ all = MergeAll(raw, taken, start)
         /\ L = {b \in DOMAIN all : b + MaxBuckets > time}
         /\ K = NewestBuckets(L, MaxBuckets)
  OBVIOUS
<1>5. DOMAIN all = start /\ L \subseteq start /\ K \subseteq start /\ start \subseteq 0 .. now
  BY <1>3, <1>4 DEF MergeAll, NewestBuckets, AreCounts
<1>6. raw' = Restrict(MergeAll(raw, taken, start), K)
  BY <1>1, <1>2, <1>4 DEF Merged
<1>7. AreCounts(raw', now) /\ \A b : (b \in start => b \in K) => Joins(raw', raw, taken, b)
  <2>1. PICK R, P, n : R = raw' /\ P = raw /\ n = now
    OBVIOUS
  <2>2. n \in Nat /\ AreCounts(P, n) /\ AreCounts(taken, n)
    BY <1>1, <1>3, <2>1
  <2>3. /\ DOMAIN P \cup DOMAIN taken \subseteq start /\ start \subseteq 0 .. n /\ K \subseteq start
        /\ R = Restrict(MergeAll(P, taken, start), K)
    BY <1>4, <1>5, <1>6, <2>1
  <2>4. AreCounts(R, n) /\ \A b : (b \in start => b \in K) => Joins(R, P, taken, b)
    BY <2>2, <2>3, MergedAdds
  <2> QED
    BY <2>1, <2>4
<1>8. ASSUME NEW b \in 0 .. now, b + MaxBuckets > now, b \in start PROVE b \in K
  <2>1. b + MaxBuckets > time
    BY <1>1, <1>3, <1>8, CoverageAssumption
  <2>2. b \in L /\ L \subseteq 0 .. now
    BY <1>4, <1>5, <1>8, <2>1
  <2> QED
    BY <1>1, <1>4, <1>8, <2>2, NewestKeep
<1>9. PICK x : /\ flush' = [flush EXCEPT ![f] = x] /\ FlushOK(x, now) /\ x.taken = <<>>
  <2>1. CASE flush[f].roll
    <3>1. PICK x : x = [at |-> "saved", now |-> time, taken |-> <<>>, roll |-> TRUE,
                        doc |-> ClosedBuckets(raw', time)]
      OBVIOUS
    <3>2. flush' = [flush EXCEPT ![f] = x]
      BY <1>2, <2>1, <3>1 DEF SaveCounts
    <3>3. FlushOK(x, now) /\ x.taken = <<>>
      BY <1>3, <3>1, NoCounts DEF FlushOK
    <3> QED
      BY <3>2, <3>3
  <2>2. CASE ~ flush[f].roll
    <3>1. flush' = [flush EXCEPT ![f] = NoFlush]
      BY <2>2 DEF SaveCounts
    <3> QED
      BY <1>1, <3>1, NoFlushIsOK
  <2> QED
    BY <2>1, <2>2
<1>10. HoldingsOK' /\ flush'[f] = x /\ OneDiffers(flush, flush', f)
  BY <1>1, <1>3, <1>7, <1>9, HoldingsMove
<1>11. ASSUME NEW b \in 0 .. now, b + MaxBuckets > now
       PROVE  /\ EventsOf(raw', b).seen + EventsOf(pending', b).seen + EventsOf(flush'[f].taken, b).seen
                = EventsOf(raw, b).seen + EventsOf(pending, b).seen + EventsOf(flush[f].taken, b).seen
             /\ EventsOf(raw', b).asked + EventsOf(pending', b).asked + EventsOf(flush'[f].taken, b).asked
                >= EventsOf(raw, b).asked + EventsOf(pending, b).asked + EventsOf(flush[f].taken, b).asked
  <2>1. /\ EventsOf(raw', b).seen = EventsOf(raw, b).seen + EventsOf(taken, b).seen
        /\ EventsOf(raw', b).asked >= EventsOf(raw, b).asked + EventsOf(taken, b).asked
    BY <1>7, <1>8, <1>11 DEF Joins
  <2>2. EventsOf(flush'[f].taken, b).seen = 0 /\ EventsOf(flush'[f].taken, b).asked = 0
    BY <1>9, <1>10, EventsOfNone
  <2>3. EventsOf(flush[f].taken, b) = EventsOf(taken, b) /\ EventsOf(pending', b) = EventsOf(pending, b)
    BY <1>1, <1>2
  <2>4. /\ EventsOf(raw, b).seen \in Nat /\ EventsOf(raw, b).asked \in Nat
        /\ EventsOf(raw', b).seen \in Nat /\ EventsOf(raw', b).asked \in Nat
        /\ EventsOf(pending, b).seen \in Nat /\ EventsOf(pending, b).asked \in Nat
        /\ EventsOf(taken, b).seen \in Nat /\ EventsOf(taken, b).asked \in Nat
    BY <1>1, <1>3, <1>7, EventsOfCounts
  <2> QED
    BY <2>1, <2>2, <2>3, <2>4
<1> QED
  BY <1>1, <1>10, <1>11, MoveStep

\* What could not be saved is what the process has again, with what was counted meanwhile.
LEMMA FailStep ==
    ASSUME CountsInv, NEW f \in Flushes, SaveFails(f)
    PROVE  CountsInv'
<1>1. /\ HoldingsOK /\ now \in Nat /\ pending' = PutBack(flush[f].taken) /\ raw' = raw
      /\ flush' = [flush EXCEPT ![f] = NoFlush]
      /\ now' = now /\ recorded' = recorded /\ diedWith' = diedWith
  BY CoverageAssumption DEF SaveFails, CountsInv, HoldingsOK
<1>2. PICK taken : taken = flush[f].taken
  OBVIOUS
<1>3. AreCounts(taken, now) /\ AreCounts(raw, now) /\ AreCounts(pending, now)
  BY <1>1, <1>2 DEF HoldingsOK, FlushOK
<1>4. PICK start, K : start = DOMAIN pending \cup DOMAIN taken /\ K = NewestBuckets(start, MaxBuckets)
  OBVIOUS
<1>5. K \subseteq start /\ start \subseteq 0 .. now
  BY <1>3, <1>4 DEF NewestBuckets, AreCounts
<1>6. pending' = Restrict(MergeAll(pending, taken, start), K)
  <2>1. DOMAIN MergeAll(pending, taken, start) = start
    BY DEF MergeAll
  <2> QED
    BY <1>1, <1>2, <1>4, <2>1 DEF PutBack
<1>7. AreCounts(pending', now) /\ \A b : (b \in start => b \in K) => Joins(pending', pending, taken, b)
  <2>1. PICK R, P, n : R = pending' /\ P = pending /\ n = now
    OBVIOUS
  <2>2. n \in Nat /\ AreCounts(P, n) /\ AreCounts(taken, n)
    BY <1>1, <1>3, <2>1
  <2>3. /\ DOMAIN P \cup DOMAIN taken \subseteq start /\ start \subseteq 0 .. n /\ K \subseteq start
        /\ R = Restrict(MergeAll(P, taken, start), K)
    BY <1>4, <1>5, <1>6, <2>1
  <2>4. AreCounts(R, n) /\ \A b : (b \in start => b \in K) => Joins(R, P, taken, b)
    BY <2>2, <2>3, MergedAdds
  <2> QED
    BY <2>1, <2>4
<1>8. ASSUME NEW b \in 0 .. now, b + MaxBuckets > now, b \in start PROVE b \in K
  BY <1>1, <1>4, <1>5, <1>8, NewestKeep
<1>9. HoldingsOK' /\ flush'[f] = NoFlush /\ OneDiffers(flush, flush', f)
  BY <1>1, <1>3, <1>7, NoFlushIsOK, HoldingsMove
<1>10. ASSUME NEW b \in 0 .. now, b + MaxBuckets > now
       PROVE  /\ EventsOf(raw', b).seen + EventsOf(pending', b).seen + EventsOf(flush'[f].taken, b).seen
                = EventsOf(raw, b).seen + EventsOf(pending, b).seen + EventsOf(flush[f].taken, b).seen
             /\ EventsOf(raw', b).asked + EventsOf(pending', b).asked + EventsOf(flush'[f].taken, b).asked
                >= EventsOf(raw, b).asked + EventsOf(pending, b).asked + EventsOf(flush[f].taken, b).asked
  <2>1. /\ EventsOf(pending', b).seen = EventsOf(pending, b).seen + EventsOf(taken, b).seen
        /\ EventsOf(pending', b).asked >= EventsOf(pending, b).asked + EventsOf(taken, b).asked
    BY <1>7, <1>8, <1>10 DEF Joins
  <2>2. EventsOf(flush'[f].taken, b).seen = 0 /\ EventsOf(flush'[f].taken, b).asked = 0
    BY <1>1, <1>9, NoFlushIsOK, EventsOfNone
  <2>3. EventsOf(flush[f].taken, b) = EventsOf(taken, b) /\ EventsOf(raw', b) = EventsOf(raw, b)
    BY <1>1, <1>2
  <2>4. /\ EventsOf(raw, b).seen \in Nat /\ EventsOf(raw, b).asked \in Nat
        /\ EventsOf(pending, b).seen \in Nat /\ EventsOf(pending, b).asked \in Nat
        /\ EventsOf(pending', b).seen \in Nat /\ EventsOf(pending', b).asked \in Nat
        /\ EventsOf(taken, b).seen \in Nat /\ EventsOf(taken, b).asked \in Nat
    BY <1>1, <1>3, <1>7, EventsOfCounts
  <2> QED
    BY <2>1, <2>2, <2>3, <2>4
<1> QED
  BY <1>1, <1>9, <1>10, MoveStep

\* A flush that ends has nothing of its counts left.
LEMMA EndStep ==
    ASSUME CountsInv, NEW f \in Flushes, SaveHours(f) \/ HoursFail(f)
    PROVE  CountsInv'
<1>1. /\ HoldingsOK /\ now \in Nat /\ pending' = pending /\ raw' = raw /\ flush[f].at = "saved"
      /\ flush' = [flush EXCEPT ![f] = NoFlush]
      /\ now' = now /\ recorded' = recorded /\ diedWith' = diedWith
  BY CoverageAssumption DEF SaveHours, HoursFail, CountsInv, HoldingsOK
<1>2. AreCounts(raw, now) /\ AreCounts(pending, now) /\ FlushOK(flush[f], now)
  BY <1>1 DEF HoldingsOK
<1>3. HoldingsOK' /\ flush'[f] = NoFlush /\ OneDiffers(flush, flush', f)
  BY <1>1, <1>2, NoFlushIsOK, HoldingsMove
<1>4. flush[f].taken = <<>> /\ flush'[f].taken = <<>>
  BY <1>1, <1>2, <1>3, NoFlushIsOK DEF FlushOK
<1>5. ASSUME NEW b \in 0 .. now, b + MaxBuckets > now
      PROVE  /\ EventsOf(raw', b).seen + EventsOf(pending', b).seen + EventsOf(flush'[f].taken, b).seen
                = EventsOf(raw, b).seen + EventsOf(pending, b).seen + EventsOf(flush[f].taken, b).seen
             /\ EventsOf(raw', b).asked + EventsOf(pending', b).asked + EventsOf(flush'[f].taken, b).asked
                >= EventsOf(raw, b).asked + EventsOf(pending, b).asked + EventsOf(flush[f].taken, b).asked
  <2>1. /\ EventsOf(raw, b).seen \in Nat /\ EventsOf(raw, b).asked \in Nat
        /\ EventsOf(pending, b).seen \in Nat /\ EventsOf(pending, b).asked \in Nat
    BY <1>1, HoldingNumbers
  <2>2. EventsOf(<<>>, b).seen = 0 /\ EventsOf(<<>>, b).asked = 0
    BY EventsOfNone
  <2> QED
    BY <1>1, <1>4, <2>1, <2>2
<1> QED
  BY <1>1, <1>3, <1>5, MoveStep

\* Flushes that hold nothing have nothing in flight.
LEMMA FlightOfNone ==
    ASSUME NEW F, \A f \in Flushes : F[f].taken = <<>>, NEW b
    PROVE  Flight(F, b).seen = 0 /\ Flight(F, b).asked = 0
<1>1. PICK g, h : /\ g = [f \in Flushes |-> EventsOf(F[f].taken, b).seen]
                  /\ h = [f \in Flushes |-> EventsOf(F[f].taken, b).asked]
  OBVIOUS
<1>2. /\ IsFiniteSet(DOMAIN g) /\ \A x \in DOMAIN g : g[x] = 0
      /\ IsFiniteSet(DOMAIN h) /\ \A x \in DOMAIN h : h[x] = 0
  BY <1>1, EventsOfNone, CoverageAssumption
<1>3. SumFunction(g) = 0 /\ SumFunction(h) = 0
  BY <1>2, TotalOfZeros
<1>4. Flight(F, b) = [seen |-> SumFunction(g), asked |-> SumFunction(h)]
  BY <1>1, Zenon DEF Flight
<1> QED
  BY <1>3, <1>4

\* What the process held has died with it.
LEMMA RestartStep ==
    ASSUME CountsInv, Restart
    PROVE  CountsInv'
<1>1. /\ HoldingsOK /\ now \in Nat /\ now <= MaxTime /\ now \in 0 .. MaxTime
      /\ pending' = <<>> /\ raw' = raw /\ flush' = [f \in Flushes |-> NoFlush]
      /\ now' = now /\ recorded' = recorded
      /\ diedWith' = [b \in 0 .. MaxTime |-> Plus(diedWith[b], Plus(EventsOf(pending, b), InFlight(b)))]
  BY CoverageAssumption DEF Restart, CountsInv, HoldingsOK
<1>2. ASSUME NEW b \in 0 .. MaxTime
      PROVE  /\ diedWith'[b] \in Tallies
             /\ diedWith'[b].seen = diedWith[b].seen + (EventsOf(pending, b).seen + Flight(flush, b).seen)
             /\ diedWith'[b].asked = diedWith[b].asked + (EventsOf(pending, b).asked + Flight(flush, b).asked)
             /\ b > now => diedWith'[b] = NoEvents
  <2>1. InFlight(b) = Flight(flush, b)
    BY DEF InFlight, Flight
  <2>2. diedWith'[b] = Plus(diedWith[b], Plus(EventsOf(pending, b), Flight(flush, b)))
    BY <1>1, <2>1
  <2>3. diedWith'[b] = [seen |-> diedWith[b].seen + (EventsOf(pending, b).seen + Flight(flush, b).seen),
                        asked |-> diedWith[b].asked + (EventsOf(pending, b).asked + Flight(flush, b).asked)]
    BY <2>2 DEF Plus
  <2>4. /\ EventsOf(pending, b).seen \in Nat /\ EventsOf(pending, b).asked \in Nat
        /\ Flight(flush, b).seen \in Nat /\ Flight(flush, b).asked \in Nat
        /\ diedWith[b].seen \in Nat /\ diedWith[b].asked \in Nat
        /\ b \notin 0 .. now => /\ EventsOf(pending, b).seen = 0 /\ EventsOf(pending, b).asked = 0
                                /\ Flight(flush, b).seen = 0 /\ Flight(flush, b).asked = 0
    BY <1>1, HoldingNumbers
  <2>5. b > now => diedWith'[b] = NoEvents
    <3> SUFFICES ASSUME b > now PROVE diedWith'[b] = NoEvents
      OBVIOUS
    <3>1. diedWith[b].seen = 0 /\ diedWith[b].asked = 0
      BY <1>1 DEF HoldingsOK, NoEvents
    <3>2. b \notin 0 .. now
      BY <1>1
    <3> QED
      BY <2>3, <2>4, <3>1, <3>2 DEF NoEvents
  <2> QED
    BY <2>3, <2>4, <2>5 DEF Tallies
<1>3. flush' = [f \in Flushes |-> flush'[f]] /\ \A f \in Flushes : flush'[f] = NoFlush
  BY <1>1
<1>4. HoldingsOK'
  <2>1. \A f \in Flushes : FlushOK(flush'[f], now)
    BY <1>1, <1>3, NoFlushIsOK
  <2>2. diedWith' \in [0 .. MaxTime -> Tallies]
    BY <1>1, <1>2
  <2> QED
    BY <1>1, <1>2, <1>3, <2>1, <2>2, NoCounts DEF HoldingsOK
<1>5. ASSUME NEW b \in 0 .. now, b + MaxBuckets > now PROVE Balanced(b)'
  <2>1. Balanced(b) /\ b \in 0 .. MaxTime
    <3>1. Balanced(b)
      BY <1>5 DEF CountsInv
    <3>2. b \in 0 .. MaxTime
      BY <1>1, <1>5, CoverageAssumption
    <3> QED
      BY <3>1, <3>2
  <2>2. Flight(flush', b).seen = 0 /\ Flight(flush', b).asked = 0
    <3>1. PICK G : G = flush' /\ \A f \in Flushes : G[f].taken = <<>>
      BY <1>3, NoFlushIsOK DEF NoFlush
    <3> QED
      BY <3>1, FlightOfNone
  <2>3. EventsOf(pending', b).seen = 0 /\ EventsOf(pending', b).asked = 0
    BY <1>1, EventsOfNone
  <2>4. /\ EventsOf(raw, b).seen \in Nat /\ EventsOf(raw, b).asked \in Nat
        /\ EventsOf(pending, b).seen \in Nat /\ EventsOf(pending, b).asked \in Nat
        /\ Flight(flush, b).seen \in Nat /\ Flight(flush, b).asked \in Nat
        /\ recorded[b].seen \in Nat /\ recorded[b].asked \in Nat
        /\ diedWith[b].seen \in Nat /\ diedWith[b].asked \in Nat
    BY <1>1, <2>1, HoldingNumbers
  <2>5. /\ diedWith'[b].seen = diedWith[b].seen + (EventsOf(pending, b).seen + Flight(flush, b).seen)
        /\ diedWith'[b].asked = diedWith[b].asked + (EventsOf(pending, b).asked + Flight(flush, b).asked)
    BY <1>2, <2>1
  <2>6. /\ (EventsOf(raw, b).seen + EventsOf(pending, b).seen) + (Flight(flush, b).seen + diedWith[b].seen)
              = recorded[b].seen
        /\ (EventsOf(raw, b).asked + EventsOf(pending, b).asked) + (Flight(flush, b).asked + diedWith[b].asked)
              >= recorded[b].asked
    BY <2>1 DEF Balanced
  <2>7. /\ (EventsOf(raw', b).seen + EventsOf(pending', b).seen) + (Flight(flush', b).seen + diedWith'[b].seen)
              = recorded'[b].seen
        /\ (EventsOf(raw', b).asked + EventsOf(pending', b).asked) + (Flight(flush', b).asked + diedWith'[b].asked)
              >= recorded'[b].asked
    <3>1. EventsOf(raw', b) = EventsOf(raw, b) /\ recorded'[b] = recorded[b]
      BY <1>1
    <3>2. (EventsOf(raw', b).seen + EventsOf(pending', b).seen) + (Flight(flush', b).seen + diedWith'[b].seen)
              = recorded[b].seen
      BY <2>2, <2>3, <2>4, <2>5, <2>6, <3>1
    <3>3. (EventsOf(raw', b).asked + EventsOf(pending', b).asked) + (Flight(flush', b).asked + diedWith'[b].asked)
              >= recorded[b].asked
      BY <2>2, <2>3, <2>4, <2>5, <2>6, <3>1
    <3> QED
      BY <3>1, <3>2, <3>3
  <2> QED
    BY <2>7 DEF Balanced
<1> QED
  BY <1>1, <1>4, <1>5 DEF CountsInv

\* Nothing has been counted of the next bucket yet.
LEMMA TimeStep ==
    ASSUME CountsInv, TimePasses
    PROVE  CountsInv'
<1>1. /\ HoldingsOK /\ now \in Nat /\ MaxTime \in Nat /\ now < MaxTime /\ now' = now + 1
      /\ pending' = pending /\ raw' = raw /\ flush' = flush
      /\ recorded' = recorded /\ diedWith' = diedWith
  BY CoverageAssumption DEF TimePasses, CountsInv, HoldingsOK
<1>2. 0 .. now \subseteq 0 .. now' /\ now' \in 0 .. MaxTime
  BY <1>1
<1>3. HoldingsOK'
  BY <1>1, <1>2 DEF HoldingsOK, FlushOK, AreCounts
<1>4. ASSUME NEW b \in 0 .. now', b + MaxBuckets > now' PROVE Balanced(b)
  <2>1. CASE b = now'
    <3>1. b \notin 0 .. now /\ b \in 0 .. MaxTime /\ b > now
      BY <1>1, <2>1
    <3>2. /\ EventsOf(raw, b).seen = 0 /\ EventsOf(raw, b).asked = 0
          /\ EventsOf(pending, b).seen = 0 /\ EventsOf(pending, b).asked = 0
          /\ Flight(flush, b).seen = 0 /\ Flight(flush, b).asked = 0
      BY <1>1, <3>1, HoldingNumbers
    <3>3. recorded[b] = NoEvents /\ diedWith[b] = NoEvents
      BY <1>1, <3>1 DEF HoldingsOK
    <3> QED
      BY <3>2, <3>3 DEF Balanced, NoEvents
  <2>2. CASE b # now'
    <3>1. b \in 0 .. now /\ b + MaxBuckets > now
      BY <1>1, <1>4, <2>2, CoverageAssumption
    <3> QED
      BY <3>1 DEF CountsInv
  <2> QED
    BY <2>1, <2>2
<1>5. \A b : Balanced(b)' <=> Balanced(b)
  BY <1>1 DEF Balanced
<1> QED
  BY <1>3, <1>4, <1>5 DEF CountsInv

\* The counts an event is added to.
LEMMA PendingIsBucket ==
    ASSUME HoldingsOK, NEW b
    PROVE  IsBucket(At(pending, b, EmptyBucket))
  BY EmptyIsBucket DEF HoldingsOK, AreCounts, At

\* A funnel event and a confirmation are counted once.
LEMMA RecordStep ==
    ASSUME CountsInv, NEW b \in 0 .. now, NEW m \in Bits, NEW k
    PROVE  /\ \A s \in Stages : RecordFunnelStage(b, s, m) => CountsInv'
           /\ RecordConfirmation(b, k, m) => CountsInv'
<1>1. PICK B : B = At(pending, b, EmptyBucket) /\ IsBucket(B)
  BY PendingIsBucket DEF CountsInv
<1>2. ASSUME NEW s \in Stages, RecordFunnelStage(b, s, m) PROVE CountsInv'
  <2>1. PICK C : C = [B EXCEPT !.stages[s] = MergeMetric(@, [count |-> 1, bits |-> {m}])]
    OBVIOUS
  <2>2. Counts(B, C, 1, 0)
    BY <1>1, <2>1, FunnelCounts
  <2>3. CountIn(b, C, 1, 0)
    BY <1>1, <1>2, <2>1, Zenon DEF RecordFunnelStage
  <2> QED
    BY <1>1, <2>2, <2>3, CountStep
<1>3. ASSUME RecordConfirmation(b, k, m) PROVE CountsInv'
  <2>1. PICK one, C, D : /\ one = MergeMetric(At(B.confirmed, k, NoMetric), [count |-> 1, bits |-> {m}])
                         /\ C = [B EXCEPT !.confirmed = Put(@, k, one)]
                         /\ D = [B EXCEPT !.confirmedOver = @ + 1]
    OBVIOUS
  <2>2. Counts(B, C, 1, 0) /\ Counts(B, D, 1, 0)
    BY <1>1, <2>1, ConfirmationCounts, Zenon
  <2>3. CountIn(b, IF HasRoom(B.confirmed, k) THEN C ELSE D, 1, 0)
    BY <1>1, <1>3, <2>1, Zenon DEF RecordConfirmation
  <2>4. CountIn(b, C, 1, 0) \/ CountIn(b, D, 1, 0)
    BY <2>3
  <2> QED
    BY <1>1, <2>2, <2>4, CountStep
<1> QED
  BY <1>2, <1>3

\* A request is counted.
LEMMA RpcStep ==
    ASSUME CountsInv, NEW b \in 0 .. now, NEW k, NEW e \in RpcCalls, RecordRpcMethod(b, k, e)
    PROVE  CountsInv'
<1>1. PICK B : B = At(pending, b, EmptyBucket) /\ IsBucket(B)
  BY PendingIsBucket DEF CountsInv
<1>2. PICK one, C, D : /\ one = MergeMethod(At(B.methods, k, NoMethod), e)
                       /\ C = [B EXCEPT !.methods = Put(@, k, one)]
                       /\ D = [B EXCEPT !.methodsOver = @ + AtLeastOne(e.asked + e.other)]
  OBVIOUS
<1>3. e \in Method
  BY CoverageAssumption DEF Method
<1>4. Counts(B, C, 0, e.asked) /\ Counts(B, D, 0, e.asked)
  BY <1>1, <1>2, <1>3, MethodCounts, Zenon
<1>5. CountIn(b, IF HasRoom(B.methods, k) THEN C ELSE D, 0, e.asked)
  BY <1>1, <1>2, Zenon DEF RecordRpcMethod
<1>6. CountIn(b, C, 0, e.asked) \/ CountIn(b, D, 0, e.asked)
  BY <1>5
<1> QED
  BY <1>1, <1>4, <1>6, CountStep

\* Whatever is counted, and whatever flushes overlap, fail, put their counts back or die with
\* their process, no event is counted twice or dropped: what the document, the process and the
\* flushes hold of a retained bucket, with what died, is what was recorded.
THEOREM NoCountIsLost == CoverageSpec => []CountsAddUp
<1>1. CoverageInit => CountsInv
  <2> SUFFICES ASSUME CoverageInit PROVE CountsInv
    OBVIOUS
  <2>1. /\ now = 0 /\ pending = <<>> /\ raw = <<>> /\ flush = [f \in Flushes |-> NoFlush]
        /\ recorded = [b \in 0 .. MaxTime |-> NoEvents] /\ diedWith = [b \in 0 .. MaxTime |-> NoEvents]
        /\ 0 \in 0 .. MaxTime
    BY CoverageAssumption DEF CoverageInit
  <2>2. \A f \in Flushes : flush[f] = NoFlush /\ flush[f].taken = <<>>
    BY <2>1, NoFlushIsOK
  <2>3. NoEvents \in Tallies
    BY DEF NoEvents, Tallies
  <2>4. HoldingsOK
    <3>1. FlushOK(NoFlush, 0) /\ AreCounts(<<>>, 0)
      BY NoFlushIsOK, NoCounts
    <3> QED
      BY <2>1, <2>2, <2>3, <3>1 DEF HoldingsOK
  <2>5. ASSUME NEW b \in 0 .. now PROVE Balanced(b)
    <3>1. Flight(flush, b).seen = 0 /\ Flight(flush, b).asked = 0
      BY <2>2, FlightOfNone
    <3>2. EventsOf(<<>>, b).seen = 0 /\ EventsOf(<<>>, b).asked = 0
      BY EventsOfNone
    <3>3. recorded[b] = NoEvents /\ diedWith[b] = NoEvents
      BY <2>1
    <3> QED
      BY <2>1, <3>1, <3>2, <3>3 DEF Balanced, NoEvents
  <2> QED
    BY <2>4, <2>5 DEF CountsInv
<1>2. CountsInv /\ [CoverageNext]_coverageVars => CountsInv'
  <2> SUFFICES ASSUME CountsInv, [CoverageNext]_coverageVars PROVE CountsInv'
    OBVIOUS
  <2>1. ASSUME NEW b \in 0 .. now, NEW m \in Bits,
               \/ \E s \in Stages : RecordFunnelStage(b, s, m)
               \/ \E k \in Keys : RecordConfirmation(b, k, m)
        PROVE  CountsInv'
    BY <2>1, RecordStep
  <2>2. ASSUME NEW b \in 0 .. now, NEW k \in MethodKeys, NEW e \in RpcCalls, RecordRpcMethod(b, k, e)
        PROVE  CountsInv'
    BY <2>2, RpcStep
  <2>3. ASSUME NEW f \in Flushes,
               BeginFlush(f) \/ SaveCounts(f) \/ SaveFails(f) \/ SaveHours(f) \/ HoursFail(f)
        PROVE  CountsInv'
    BY <2>3, BeginStep, SaveStep, FailStep, EndStep
  <2>4. CASE Restart
    BY <2>4, RestartStep
  <2>5. CASE TimePasses
    BY <2>5, TimeStep
  <2>6. CASE UNCHANGED coverageVars
    BY <2>6 DEF coverageVars, CountsInv, HoldingsOK, Balanced
  <2> QED
    BY <2>1, <2>2, <2>3, <2>4, <2>5, <2>6 DEF CoverageNext
<1> QED
  BY <1>1, <1>2, InvAddsUp, PTL DEF CoverageSpec
=============================================================================
