--------------------------- MODULE MonitorProofs ---------------------------
(***************************************************************************)
(* Theorems about the loops of src/monitor.py and what they share: the     *)
(* slots for quotes, the clean stop, the verdicts on watched wallets, and  *)
(* the cooldowns of the momentum route.                                    *)
(***************************************************************************)
EXTENDS JupiterQuotes, SignalDelivery, WalletPool, MomentumRoute,
        FiniteSetTheorems, SequenceTheorems, TLAPS

-----------------------------------------------------------------------------
(* The slots for quotes                                                    *)
(*                                                                         *)
(* What has been promised, hush, is covered by the document: the later of  *)
(* the slot's gap and the published reset.  Whoever sleeps with the lock   *)
(* has copied that bound, and nobody writes the document meanwhile.        *)

QuotePC == {"idle", "ask", "due", "granted", "sent", "defer", "rest"}
Request == [pc: QuotePC, try: Int, wait: Int, reset: Int, delay: Int]

QuoteTypes ==
    /\ slots \in [gap: Int, notBefore: Int]
    /\ limiter \in Quotes \cup {NoQuote}
    /\ quote \in [Quotes -> Request]
    /\ hush \in Nat

DocumentCovers == hush <= Later(slots.gap, slots.notBefore)
SleeperHolds ==
    \A c \in Quotes: quote[c].pc = "due" => limiter = c /\ hush <= quote[c].wait

QuoteInv == QuoteTypes /\ DocumentCovers /\ SleeperHolds

\* The later of two times is one of them, and not before either.
LEMMA LaterIsLater ==
    ASSUME NEW x \in Int, NEW y \in Int
    PROVE  /\ Later(x, y) \in Int
           /\ Later(x, y) >= x /\ Later(x, y) >= y
           /\ Later(x, y) = x \/ Later(x, y) = y
BY DEF Later

\* A unit of time takes at most one off, and stops at zero.
LEMMA DownGoesDown ==
    ASSUME NEW n \in Int
    PROVE  /\ Down(n) \in Nat
           /\ n > 0 => Down(n) = n - 1
           /\ n <= 0 => Down(n) = 0
BY DEF Down

\* It changes no order.
LEMMA DownKeepsOrder ==
    ASSUME NEW m \in Int, NEW n \in Int, m <= n
    PROVE  Down(m) <= Down(n)
BY DEF Down

\* A delay is a number (_jupiter_backoff_seconds).
LEMMA BackoffIsANumber ==
    ASSUME NEW q \in Request, NEW d \in Resets
    PROVE  Backoff(q, d) \in Int
BY QuoteAssumption DEF Backoff, Request

\* What is left of a request after a failure is a request that holds nothing.
LEMMA RestIsARequest ==
    ASSUME NEW q \in Request, NEW d \in Int
    PROVE  RestsOrEnds(q, d) \in Request /\ RestsOrEnds(q, d).pc \in {"idle", "rest"}
<1>. DEFINE r == [NoRequest EXCEPT !.pc = "rest", !.try = q.try, !.wait = d]
<1>0. q.try \in Int
    BY DEF Request
<1>. DEFINE n == q.try
<1>1. r \in Request /\ r.pc = "rest"
    <2>1. NoRequest \in Request
        BY DEF NoRequest, Request, QuotePC
    <2>2. r = [NoRequest EXCEPT !.pc = "rest", !.try = n, !.wait = d] /\ n \in Int
        BY <1>0
    <2>. HIDE DEF r, n
    <2>. QED BY <2>1, <2>2 DEF Request, QuotePC
<1>2. NoRequest \in Request /\ NoRequest.pc = "idle"
    BY DEF NoRequest, Request, QuotePC
<1>3. RestsOrEnds(q, d) = r \/ RestsOrEnds(q, d) = NoRequest
    BY Zenon DEF RestsOrEnds
<1>. HIDE DEF r
<1>. QED BY <1>1, <1>2, <1>3

\* A step of one quote that leaves the document alone keeps the invariant, if the quote
\* does not come to sleep with the lock.
LEMMA QuoteMovesOn ==
    ASSUME QuoteInv, NEW c \in Quotes, NEW r \in Request,
           quote' = [quote EXCEPT ![c] = r], r.pc # "due",
           slots' = slots, hush' = hush,
           limiter' = limiter \/ (limiter = c /\ limiter' = NoQuote)
    PROVE  QuoteInv'
<1>1. QuoteTypes'
    BY DEF QuoteInv, QuoteTypes
<1>2. DocumentCovers'
    BY DEF QuoteInv, DocumentCovers
<1>3. SleeperHolds'
    BY QuoteAssumption DEF QuoteInv, QuoteTypes, SleeperHolds
<1>. QED BY <1>1, <1>2, <1>3 DEF QuoteInv

LEMMA QuoteInit_Inv == QuoteInit => QuoteInv
BY DEF QuoteInit, QuoteInv, QuoteTypes, DocumentCovers, SleeperHolds, NoRequest, Request,
       QuotePC, Later

LEMMA QuoteStep_Inv == QuoteInv /\ [QuoteNext]_quoteVars => QuoteInv'
<1>. SUFFICES ASSUME QuoteInv, [QuoteNext]_quoteVars PROVE QuoteInv'
    OBVIOUS
<1>. USE DEF QuoteGoes
<1>t. QuoteTypes /\ DocumentCovers /\ SleeperHolds
    BY DEF QuoteInv
<1>n. NoRequest \in Request /\ NoRequest.pc = "idle"
    BY DEF NoRequest, Request, QuotePC
<1>1. ASSUME NEW c \in Quotes, StartQuote(c) PROVE QuoteInv'
    <2>. DEFINE r == [NoRequest EXCEPT !.pc = "ask"]
    <2>1. r \in Request /\ r.pc = "ask"
        BY DEF NoRequest, Request, QuotePC
    <2>2. quote' = [quote EXCEPT ![c] = r] /\ UNCHANGED <<slots, limiter, hush>>
        BY <1>1 DEF StartQuote
    <2>. QED BY <2>1, <2>2, QuoteMovesOn
<1>2. ASSUME NEW c \in Quotes, TakeSlot(c) PROVE QuoteInv'
    <2>. DEFINE w == Later(slots.gap, slots.notBefore)
                r == [quote[c] EXCEPT !.pc = "due", !.wait = w]
    <2>1. w \in Int /\ hush <= w
        BY <1>t, LaterIsLater DEF QuoteTypes, DocumentCovers
    <2>. HIDE DEF w
    <2>2. r \in Request /\ r.pc = "due" /\ r.wait = w
        BY <1>t, <2>1 DEF QuoteTypes, Request, QuotePC
    <2>3. /\ quote' = [quote EXCEPT ![c] = r] /\ limiter = NoQuote /\ limiter' = c
          /\ slots' = slots /\ hush' = hush
        BY <1>2 DEF TakeSlot, w
    <2>. HIDE DEF r
    <2>4. QuoteTypes'
        BY <1>t, <2>2, <2>3 DEF QuoteTypes
    <2>5. DocumentCovers'
        BY <1>t, <2>3 DEF DocumentCovers
    <2>6. SleeperHolds'
        BY <1>t, <2>1, <2>2, <2>3, QuoteAssumption DEF SleeperHolds, QuoteTypes
    <2>. QED BY <2>4, <2>5, <2>6 DEF QuoteInv
<1>3. ASSUME NEW c \in Quotes, GrantSlot(c) PROVE QuoteInv'
    <2>. DEFINE r == [quote[c] EXCEPT !.pc = "granted"]
    <2>1. r \in Request /\ r.pc = "granted"
        BY <1>t DEF QuoteTypes, Request, QuotePC
    <2>2. /\ quote' = [quote EXCEPT ![c] = r] /\ limiter' = NoQuote
          /\ slots' = [slots EXCEPT !.gap = SlotInterval]
          /\ hush' = Later(hush, SlotInterval)
          /\ quote[c].pc = "due" /\ quote[c].wait = 0
        BY <1>3 DEF GrantSlot
    <2>. HIDE DEF r
    <2>3. limiter = c /\ hush = 0 /\ SlotInterval \in Nat
        BY <1>t, <2>2, QuoteAssumption DEF SleeperHolds, QuoteTypes
    <2>4. hush' = SlotInterval
        BY <2>2, <2>3, QuoteAssumption DEF Later
    <2>5. slots' \in [gap: Int, notBefore: Int] /\ slots'.gap = SlotInterval
        BY <1>t, <2>2, <2>3 DEF QuoteTypes
    <2>6. QuoteTypes'
        BY <1>t, <2>1, <2>2, <2>3, <2>4, <2>5 DEF QuoteTypes
    <2>7. DocumentCovers'
        BY <2>3, <2>4, <2>5, LaterIsLater DEF DocumentCovers
    <2>8. SleeperHolds'
        BY <1>t, <2>1, <2>2, <2>3 DEF SleeperHolds, QuoteTypes
    <2>. QED BY <2>6, <2>7, <2>8 DEF QuoteInv
<1>4. ASSUME NEW c \in Quotes, QuoteAnswered(c) PROVE QuoteInv'
    BY <1>4, <1>n, QuoteMovesOn DEF QuoteAnswered
<1>5. ASSUME NEW c \in Quotes, NEW d \in Resets, TurnedAway(c, d) PROVE QuoteInv'
    <2>. DEFINE b == Backoff(quote[c], d)
                r == [quote[c] EXCEPT !.pc = "defer", !.reset = b, !.delay = b]
    <2>1. b \in Int
        BY <1>t, BackoffIsANumber DEF QuoteTypes
    <2>2. quote' = [quote EXCEPT ![c] = r] /\ UNCHANGED <<slots, limiter, hush>>
        BY <1>5 DEF TurnedAway
    <2>. HIDE DEF b
    <2>3. r \in Request /\ r.pc = "defer"
        BY <1>t, <2>1 DEF QuoteTypes, Request, QuotePC
    <2>. HIDE DEF r
    <2>. QED BY <2>2, <2>3, QuoteMovesOn
<1>6. ASSUME NEW c \in Quotes, PublishReset(c) PROVE QuoteInv'
    <2>. DEFINE n == quote[c].reset
                r == RestsOrEnds(quote[c], quote[c].delay)
    <2>1. n \in Int /\ r \in Request /\ r.pc \in {"idle", "rest"}
        BY <1>t, RestIsARequest DEF QuoteTypes, Request
    <2>2. /\ quote' = [quote EXCEPT ![c] = r] /\ limiter = NoQuote /\ limiter' = limiter
          /\ slots' = [slots EXCEPT !.notBefore = Later(slots.notBefore, n)]
          /\ hush' = Later(hush, n)
        BY <1>6 DEF PublishReset, Deferred
    <2>. HIDE DEF n, r
    <2>. DEFINE u == Later(slots.notBefore, n)
    <2>3. slots.gap \in Int /\ slots.notBefore \in Int /\ hush \in Int /\ u \in Int
        BY <1>t, <2>1, LaterIsLater DEF QuoteTypes
    <2>4. slots' \in [gap: Int, notBefore: Int] /\ slots'.gap = slots.gap /\ slots'.notBefore = u
        BY <1>t, <2>2, <2>3 DEF QuoteTypes
    <2>5. hush' \in Nat
        BY <1>t, <2>1, <2>2 DEF QuoteTypes, Later
    <2>6. hush' <= Later(slots.gap, u)
        BY <1>t, <2>1, <2>2, <2>3 DEF DocumentCovers, Later
    <2>. HIDE DEF u
    <2>7. QuoteTypes'
        BY <1>t, <2>1, <2>2, <2>4, <2>5 DEF QuoteTypes
    <2>8. DocumentCovers'
        BY <2>4, <2>6 DEF DocumentCovers
    <2>9. SleeperHolds'
        BY <1>t, <2>1, <2>2, QuoteAssumption DEF SleeperHolds, QuoteTypes
    <2>. QED BY <2>7, <2>8, <2>9 DEF QuoteInv
<1>7. ASSUME NEW c \in Quotes, TransportFails(c) PROVE QuoteInv'
    <2>. DEFINE n == 2 ^ quote[c].try
                r == RestsOrEnds(quote[c], n)
    <2>1. n \in Int
        BY <1>t DEF QuoteTypes, Request
    <2>2. quote' = [quote EXCEPT ![c] = r] /\ UNCHANGED <<slots, limiter, hush>>
        BY <1>7 DEF TransportFails
    <2>. HIDE DEF n
    <2>3. r \in Request /\ r.pc # "due"
        BY <1>t, <2>1, RestIsARequest DEF QuoteTypes
    <2>. HIDE DEF r
    <2>. QED BY <2>2, <2>3, QuoteMovesOn
<1>8. ASSUME NEW c \in Quotes, QuoteAgain(c) PROVE QuoteInv'
    <2>. DEFINE n == quote[c].try + 1
                r == [quote[c] EXCEPT !.pc = "ask", !.try = n]
    <2>1. n \in Int
        BY <1>t DEF QuoteTypes, Request
    <2>2. quote' = [quote EXCEPT ![c] = r] /\ UNCHANGED <<slots, limiter, hush>>
        BY <1>8 DEF QuoteAgain, NextTry
    <2>. HIDE DEF n
    <2>3. r \in Request /\ r.pc = "ask"
        BY <1>t, <2>1 DEF QuoteTypes, Request, QuotePC
    <2>. HIDE DEF r
    <2>. QED BY <2>2, <2>3, QuoteMovesOn
<1>9. ASSUME NEW c \in Quotes, QuoteDies(c) PROVE QuoteInv'
    BY <1>9, <1>n, QuoteMovesOn DEF QuoteDies
<1>10. CASE QuoteTick
    <2>1. /\ slots' = [gap |-> Down(slots.gap), notBefore |-> Down(slots.notBefore)]
          /\ hush' = Down(hush) /\ limiter' = limiter
          /\ quote' = [c \in Quotes |-> [quote[c] EXCEPT !.wait = Down(quote[c].wait),
                                                         !.reset = Down(quote[c].reset)]]
        BY <1>10 DEF QuoteTick
    <2>2. /\ slots.gap \in Int /\ slots.notBefore \in Int /\ hush \in Nat
          /\ Down(slots.gap) \in Nat /\ Down(slots.notBefore) \in Nat /\ Down(hush) \in Nat
        BY <1>t, DownGoesDown DEF QuoteTypes
    <2>3. ASSUME NEW c \in Quotes
          PROVE  /\ quote'[c] \in Request /\ quote'[c].pc = quote[c].pc
                 /\ quote'[c].wait = Down(quote[c].wait) /\ quote[c].wait \in Int
        <3>1. quote[c] \in Request /\ Down(quote[c].wait) \in Int /\ Down(quote[c].reset) \in Int
            BY <1>t, DownGoesDown DEF QuoteTypes, Request
        <3>. DEFINE a == Down(quote[c].wait)
                    b == Down(quote[c].reset)
        <3>2. quote'[c] = [quote[c] EXCEPT !.wait = a, !.reset = b]
            BY <2>1
        <3>3. a \in Int /\ b \in Int /\ quote[c].wait \in Int
            BY <3>1 DEF Request
        <3>. HIDE DEF a, b
        <3>4. quote'[c] \in Request /\ quote'[c].pc = quote[c].pc /\ quote'[c].wait = a
            BY <3>1, <3>2, <3>3 DEF Request
        <3>. QED BY <3>3, <3>4 DEF a
    <2>4. QuoteTypes'
        <3>1. quote' \in [Quotes -> Request]
            BY <2>1, <2>3
        <3>2. slots' = [gap |-> Down(slots.gap), notBefore |-> Down(slots.notBefore)]
            BY <2>1
        <3>3. slots' \in [gap: Int, notBefore: Int]
            BY <2>2, <3>2
        <3>. QED BY <1>t, <2>1, <2>2, <3>1, <3>3 DEF QuoteTypes
    <2>5. DocumentCovers'
        <3>1. slots'.gap = Down(slots.gap) /\ slots'.notBefore = Down(slots.notBefore)
            BY <2>1
        <3>2. hush <= slots.gap \/ hush <= slots.notBefore
            BY <1>t, <2>2 DEF DocumentCovers, Later
        <3>3. Down(hush) <= Down(slots.gap) \/ Down(hush) <= Down(slots.notBefore)
            BY <2>2, <3>2, DownKeepsOrder
        <3>4. Down(hush) <= Later(Down(slots.gap), Down(slots.notBefore))
            BY <2>2, <3>3 DEF Later
        <3>. QED BY <2>1, <3>1, <3>4 DEF DocumentCovers
    <2>6. SleeperHolds'
        <3>1. SUFFICES ASSUME NEW c \in Quotes, quote'[c].pc = "due"
                       PROVE  limiter' = c /\ hush' <= quote'[c].wait
            BY DEF SleeperHolds
        <3>2. limiter = c /\ hush <= quote[c].wait
            BY <1>t, <2>3, <3>1 DEF SleeperHolds
        <3>3. hush' = Down(hush) /\ limiter' = limiter
            BY <2>1
        <3>4. quote'[c].wait = Down(quote[c].wait) /\ quote[c].wait \in Int /\ hush \in Int
            BY <2>2, <2>3
        <3>5. Down(hush) <= Down(quote[c].wait)
            BY <3>2, <3>4, DownKeepsOrder
        <3>. QED BY <3>2, <3>3, <3>4, <3>5
    <2>. QED BY <2>4, <2>5, <2>6 DEF QuoteInv
<1>11. ASSUME NEW c \in Quotes, SendRequest(c) PROVE QuoteInv'
    <2>. DEFINE r == [quote[c] EXCEPT !.pc = "sent"]
    <2>1. r \in Request /\ r.pc = "sent"
        BY <1>t DEF QuoteTypes, Request, QuotePC
    <2>2. quote' = [quote EXCEPT ![c] = r] /\ UNCHANGED <<slots, limiter, hush>>
        BY <1>11 DEF SendRequest
    <2>. HIDE DEF r
    <2>. QED BY <2>1, <2>2, QuoteMovesOn
<1>12. CASE UNCHANGED quoteVars
    BY <1>12, <1>t DEF quoteVars, QuoteInv, QuoteTypes, DocumentCovers, SleeperHolds
<1>. QED BY <1>1, <1>2, <1>3, <1>4, <1>5, <1>6, <1>7, <1>8, <1>9, <1>10, <1>11, <1>12
         DEF QuoteNext, QuoteStep

\* The document, the lock and the sleeper's copy fit together in every state of the
\* limiter, for any number of quotes and any reset times.
LEMMA QuoteAlwaysInv == QuoteSpec => []QuoteInv
BY QuoteInit_Inv, QuoteStep_Inv, PTL DEF QuoteSpec

\* Who is granted a slot was asleep with the lock until its copy of the bound ran out.
LEMMA GrantedWhenQuiet ==
    ASSUME QuoteInv, [QuoteNext]_quoteVars, NEW c \in Quotes,
           quote[c].pc = "due", quote'[c].pc = "granted"
    PROVE  hush = 0
<1>t. QuoteTypes /\ SleeperHolds /\ quote[c] \in Request
    BY DEF QuoteInv, QuoteTypes
<1>1. GrantSlot(c)
    <2>. USE DEF QuoteGoes
    <2>1. ASSUME NEW e \in Quotes, NEW r, quote' = [quote EXCEPT ![e] = r],
                 e # c \/ r.pc # "granted"
          PROVE  FALSE
        BY <2>1, <1>t DEF QuoteTypes
    <2>2. ASSUME NEW e \in Quotes, StartQuote(e) PROVE FALSE
        BY <2>1, <2>2 DEF StartQuote, NoRequest
    <2>3. ASSUME NEW e \in Quotes, TakeSlot(e) PROVE FALSE
        <3>1. quote[e] \in Request
            BY <1>t DEF QuoteTypes
        <3>2. PICK w: quote' = [quote EXCEPT ![e] = [quote[e] EXCEPT !.pc = "due", !.wait = w]]
            BY <2>3 DEF TakeSlot
        <3>3. [quote[e] EXCEPT !.pc = "due", !.wait = w].pc = "due"
            BY <3>1 DEF Request
        <3>. QED BY <2>1, <3>2, <3>3
    <2>4. ASSUME NEW e \in Quotes, QuoteAnswered(e) \/ QuoteDies(e) PROVE FALSE
        BY <2>1, <2>4 DEF QuoteAnswered, QuoteDies, NoRequest
    <2>5. ASSUME NEW e \in Quotes, NEW d, quote' = [quote EXCEPT ![e] = RestsOrEnds(quote[e], d)]
          PROVE  FALSE
        <3>1. RestsOrEnds(quote[e], d).pc # "granted"
            BY DEF RestsOrEnds, NoRequest
        <3>. QED BY <2>1, <2>5, <3>1
    <2>6. ASSUME NEW e \in Quotes, PublishReset(e) \/ TransportFails(e) PROVE FALSE
        BY <2>5, <2>6 DEF PublishReset, TransportFails
    <2>7. ASSUME NEW e \in Quotes, NEW d, TurnedAway(e, d) PROVE FALSE
        <3>1. quote[e] \in Request
            BY <1>t DEF QuoteTypes
        <3>2. PICK w: quote' = [quote EXCEPT ![e] =
                                    [quote[e] EXCEPT !.pc = "defer", !.reset = w, !.delay = w]]
            BY <2>7 DEF TurnedAway
        <3>3. [quote[e] EXCEPT !.pc = "defer", !.reset = w, !.delay = w].pc = "defer"
            BY <3>1 DEF Request
        <3>. QED BY <2>1, <3>2, <3>3
    <2>8. ASSUME NEW e \in Quotes, QuoteAgain(e) PROVE FALSE
        <3>1. quote[e] \in Request
            BY <1>t DEF QuoteTypes
        <3>2. PICK w: quote' = [quote EXCEPT ![e] = [quote[e] EXCEPT !.pc = "ask", !.try = w]]
            BY <2>8 DEF QuoteAgain, NextTry
        <3>3. [quote[e] EXCEPT !.pc = "ask", !.try = w].pc = "ask"
            BY <3>1 DEF Request
        <3>. QED BY <2>1, <3>2, <3>3
    <2>9. ASSUME NEW e \in Quotes, GrantSlot(e) PROVE e = c
        BY <2>9, <1>t DEF GrantSlot, QuoteTypes
    <2>10. ~QuoteTick
        <3>1. SUFFICES ASSUME QuoteTick PROVE quote'[c].pc = quote[c].pc
            OBVIOUS
        <3>2. quote'[c] = [quote[c] EXCEPT !.wait = Down(quote[c].wait),
                                           !.reset = Down(quote[c].reset)]
            BY <3>1 DEF QuoteTick
        <3>. QED BY <3>2, <1>t DEF Request
    <2>11. ~UNCHANGED quoteVars
        BY DEF quoteVars
    <2>12. ASSUME NEW e \in Quotes, SendRequest(e) PROVE FALSE
        <3>1. quote[e] \in Request
            BY <1>t DEF QuoteTypes
        <3>2. quote' = [quote EXCEPT ![e] = [quote[e] EXCEPT !.pc = "sent"]]
            BY <2>12 DEF SendRequest
        <3>3. [quote[e] EXCEPT !.pc = "sent"].pc = "sent"
            BY <3>1 DEF Request
        <3>. QED BY <2>1, <3>2, <3>3
    <2>. QED BY <2>2, <2>3, <2>4, <2>6, <2>7, <2>8, <2>9, <2>10, <2>11, <2>12
             DEF QuoteNext, QuoteStep
<1>. QED BY <1>1, <1>t DEF GrantSlot, SleeperHolds, QuoteTypes

\* No slot is granted to any process before the interval since the last one and every
\* reset that was published until then are over, for any number of processes
\* (_wait_for_jupiter_slot_sync, _defer_jupiter_until_sync).
THEOREM SlotsStaySpaced == QuoteSpec => SlotsAreSpaced
<1>1. QuoteInv /\ [QuoteNext]_quoteVars =>
          [\A c \in Quotes: quote[c].pc = "due" /\ quote'[c].pc = "granted" => hush = 0]_quoteVars
    BY GrantedWhenQuiet
<1>. QED BY <1>1, QuoteAlwaysInv, PTL DEF QuoteSpec, SlotsAreSpaced

-----------------------------------------------------------------------------
(* The clean stop                                                          *)
(*                                                                         *)
(* No task is ever created late: while the service drains, the connection  *)
(* is off, and only a notification of a stream creates tasks.              *)

Works == [plain: Nat, shadow: Nat, latePlain: Nat, lateShadow: Nat]
Connections == [pc: {"load", "stat", "connect", "stream", "sleep", "off"}, wallets: Int,
                mtime: Int, age: Int, mode: {"HELIUS_ENHANCED", "SOLANA_STANDARD"}, probe: Int]

DeliveryTypes ==
    /\ list \in Int /\ conn \in Connections
    /\ work \in Works
    /\ service \in {"run", "cancelling", "draining", "exited"}

LoopsFirst    == service \in {"draining", "exited"} => conn.pc = "off"
NoneLate      == work.latePlain = 0 /\ work.lateShadow = 0
NoneForgotten == service = "exited" => work.plain = 0 /\ work.shadow = 0
ShadowsAreFew == work.shadow + work.lateShadow <= MaxShadows

StopInv == DeliveryTypes /\ LoopsFirst /\ NoneLate /\ NoneForgotten /\ ShadowsAreFew

\* Outside of the draining a task is counted where it is waited for.
LEMMA MoreIsWork ==
    ASSUME NEW w \in Works, NEW kind \in {"plain", "shadow"}, service # "draining"
    PROVE  /\ More(w, kind, 1) \in Works
           /\ More(w, kind, 1).latePlain = w.latePlain
           /\ More(w, kind, 1).lateShadow = w.lateShadow
           /\ kind = "plain" => More(w, kind, 1).shadow = w.shadow
           /\ More(w, kind, 1).shadow <= w.shadow + 1
<1>1. CASE kind = "plain"
    <2>1. More(w, kind, 1) = [w EXCEPT !.plain = w.plain + 1]
        BY <1>1 DEF More, Draining
    <2>. DEFINE n == w.plain + 1
    <2>2. n \in Nat
        BY DEF Works
    <2>. HIDE DEF n
    <2>3. [w EXCEPT !.plain = n] \in Works
        BY <2>2 DEF Works
    <2>. QED BY <1>1, <2>1, <2>2, <2>3 DEF Works, n
<1>2. CASE kind = "shadow"
    <2>1. More(w, kind, 1) = [w EXCEPT !.shadow = w.shadow + 1]
        BY <1>2 DEF More, Draining
    <2>. DEFINE n == w.shadow + 1
    <2>2. n \in Nat
        BY DEF Works
    <2>. HIDE DEF n
    <2>3. [w EXCEPT !.shadow = n] \in Works /\ [w EXCEPT !.shadow = n].shadow = n
        BY <2>2 DEF Works
    <2>. QED BY <1>2, <2>1, <2>2, <2>3 DEF Works, n
<1>. QED BY <1>1, <1>2

\* A delivery creates a plain task for the observation and one for the signal, or a
\* shadow if there is room; not one that is late.
LEMMA DeliveryIsCounted ==
    ASSUME StopInv, service # "draining", NEW t, NEW via, Deliver(t, via)
    PROVE  work' \in Works /\ work'.latePlain = 0 /\ work'.lateShadow = 0
           /\ work'.shadow <= MaxShadows
<1>. DEFINE paid    == TradeAmount[t] > 0
            allowed == paid /\ Allowed(t, history \cup {[trade |-> t, via |-> via, age |-> 0]})
            w       == IF paid THEN More(work, "plain", 1) ELSE work
<1>1. work' = Scheduled(w, allowed)
    BY DEF Deliver
<1>2. /\ w \in Works /\ w.latePlain = 0 /\ w.lateShadow = 0 /\ w.shadow = work.shadow
    BY MoreIsWork DEF StopInv, DeliveryTypes, NoneLate
<1>3. work.shadow \in Nat /\ work.lateShadow = 0 /\ work.shadow <= MaxShadows
    BY DEF StopInv, DeliveryTypes, Works, NoneLate, ShadowsAreFew
<1>. HIDE DEF paid, allowed, w
<1>4. CASE work' = w
    BY <1>2, <1>3, <1>4
<1>5. CASE work' = More(w, "plain", 1)
    BY <1>2, <1>3, <1>5, MoreIsWork
<1>6. CASE work' = More(w, "shadow", 1) /\ MayShadow
    <2>1. work.shadow < MaxShadows
        BY <1>3, <1>6 DEF MayShadow, Shadows
    <2>2. /\ work' \in Works /\ work'.latePlain = 0 /\ work'.lateShadow = 0
          /\ work'.shadow <= work.shadow + 1
        BY <1>2, <1>6, MoreIsWork
    <2>3. work'.shadow \in Nat /\ MaxShadows \in Nat
        BY <2>2, DeliveryAssumption DEF Works
    <2>. QED BY <1>3, <2>1, <2>2, <2>3
<1>7. \/ work' = w
      \/ work' = More(w, "plain", 1)
      \/ work' = More(w, "shadow", 1) /\ MayShadow
    BY <1>1 DEF Scheduled
<1>. QED BY <1>4, <1>5, <1>6, <1>7

\* A step of the connection alone keeps the invariant.
LEMMA ConnectionMoves ==
    ASSUME StopInv, conn' \in Connections, service \in {"run", "cancelling"},
           list' = list, work' = work, service' = service
    PROVE  StopInv'
BY DEF StopInv, DeliveryTypes, LoopsFirst, NoneLate, NoneForgotten, ShadowsAreFew

LEMMA StopInit_Inv == DeliveryInit => StopInv
<1>1. ColdConnection \in Connections /\ NoWork \in Works
    BY DEF ColdConnection, Connections, NoWork, Works
<1>2. NoWork.shadow = 0 /\ NoWork.latePlain = 0 /\ NoWork.lateShadow = 0
    BY DEF NoWork
<1>. QED BY <1>1, <1>2, DeliveryAssumption
         DEF DeliveryInit, StopInv, DeliveryTypes, LoopsFirst, NoneLate, NoneForgotten,
             ShadowsAreFew

\* What the routes make of a connection is a connection (WalletWsRouteState).
LEMMA RoutesAreConnections ==
    ASSUME NEW r \in Connections
    PROVE  /\ Standard(r) \in Connections /\ FailedRoute(r) \in Connections
           /\ RefreshedRoute(r) \in Connections
<1>1. ProbeTime \in Int
    BY DeliveryAssumption
<1>2. Standard(r) \in Connections
    BY <1>1 DEF Standard, Connections
<1>3. [r EXCEPT !.mode = "HELIUS_ENHANCED"] \in Connections
    BY DEF Connections
<1>4. FailedRoute(r) \in {Standard(r), [r EXCEPT !.mode = "HELIUS_ENHANCED"], r}
    BY Zenon DEF FailedRoute
<1>5. RefreshedRoute(r) \in {[r EXCEPT !.mode = "HELIUS_ENHANCED"], r}
    BY Zenon DEF RefreshedRoute
<1>. QED BY <1>2, <1>3, <1>4, <1>5

LEMMA StopStep_Inv == StopInv /\ [DeliveryNext]_deliveryVars => StopInv'
<1>. SUFFICES ASSUME StopInv, [DeliveryNext]_deliveryVars PROVE StopInv'
    OBVIOUS
<1>. USE DEF Quiet, Leave
<1>t. DeliveryTypes /\ LoopsFirst /\ NoneLate /\ NoneForgotten /\ ShadowsAreFew
    BY DEF StopInv
<1>c. /\ conn \in Connections /\ list \in Int
      /\ Again \in Connections
      /\ ColdConnection \in Connections
    <2>1. conn \in Connections /\ list \in Int
        BY <1>t DEF DeliveryTypes
    <2>. DEFINE x == [conn EXCEPT !.pc = "load"]
    <2>a. x \in Connections
        BY <2>1 DEF Connections
    <2>. HIDE DEF x
    <2>b. [x EXCEPT !.age = 0] \in Connections
        BY <2>a DEF Connections
    <2>2. [conn EXCEPT !.pc = "load", !.age = 0] \in Connections
        BY <2>b DEF x
    <2>3. ColdConnection \in Connections
        BY DEF ColdConnection, Connections
    <2>. QED BY <2>1, <2>2, <2>3 DEF Again
<1>1. CASE LoadList
    <2>1. [conn EXCEPT !.pc = "stat", !.wallets = list] \in Connections
        BY <1>c DEF Connections
    <2>. QED BY <1>1, <2>1, ConnectionMoves DEF LoadList
<1>2. CASE StatList
    <2>. DEFINE x == [conn EXCEPT !.pc = "connect"]
                y == [x EXCEPT !.mtime = list]
    <2>0. x \in Connections
        BY <1>c DEF Connections
    <2>. HIDE DEF x
    <2>a. y \in Connections
        BY <1>c, <2>0 DEF Connections
    <2>. HIDE DEF y
    <2>b. [y EXCEPT !.age = 0] \in Connections
        BY <2>a DEF Connections
    <2>1. [conn EXCEPT !.pc = "connect", !.mtime = list, !.age = 0] \in Connections
        BY <2>b DEF x, y
    <2>. QED BY <1>2, <2>1, ConnectionMoves DEF StatList
<1>3. CASE Subscribed
    <2>1. [conn EXCEPT !.pc = "stream"] \in Connections
        BY <1>c DEF Connections
    <2>. QED BY <1>3, <2>1, ConnectionMoves DEF Subscribed
<1>4. CASE Unavailable
    BY <1>4, <1>c, RoutesAreConnections, ConnectionMoves DEF Unavailable
<1>5. CASE ConnectionFails
    <2>. DEFINE r == FailedRoute(conn)
    <2>1. r \in Connections
        BY <1>c, RoutesAreConnections
    <2>2. conn' = [r EXCEPT !.pc = "sleep", !.age = 0] /\ service = "run"
        BY <1>5 DEF ConnectionFails
    <2>. HIDE DEF r
    <2>. DEFINE x == [r EXCEPT !.pc = "sleep"]
    <2>a. x \in Connections
        BY <2>1 DEF Connections
    <2>b. conn' = [x EXCEPT !.age = 0]
        BY <2>2
    <2>. HIDE DEF x
    <2>3. conn' \in Connections
        BY <2>a, <2>b DEF Connections
    <2>. QED BY <1>5, <2>2, <2>3, ConnectionMoves DEF ConnectionFails
<1>6. CASE Reconnect
    <2>1. [conn EXCEPT !.pc = "load"] \in Connections
        BY <1>c DEF Connections
    <2>. QED BY <1>6, <2>1, ConnectionMoves DEF Reconnect
<1>7. CASE ListChangeSeen
    BY <1>7, <1>c, ConnectionMoves DEF ListChangeSeen
<1>8. CASE RefreshDue
    BY <1>8, <1>c, RoutesAreConnections, ConnectionMoves DEF RefreshDue
<1>9. CASE LoopsEnd
    <2>1. [conn EXCEPT !.pc = "off"] \in Connections
        BY <1>c DEF Connections
    <2>. QED BY <1>9, <2>1, ConnectionMoves DEF LoopsEnd
<1>10. CASE StopService \/ DrainSignals \/ ExitService
    BY <1>10, <1>t DEF StopService, DrainSignals, ExitService, LoopsEnded, StopInv, DeliveryTypes,
                       LoopsFirst, NoneLate, NoneForgotten, ShadowsAreFew
<1>11. CASE MonitorDies
    <2>1. NoWork \in Works /\ NoWork.shadow = 0 /\ NoWork.latePlain = 0 /\ NoWork.lateShadow = 0
        BY DEF NoWork, Works
    <2>2. conn' = ColdConnection /\ work' = NoWork /\ service' = "run" /\ list' = list
        BY <1>11 DEF MonitorDies
    <2>. QED BY <1>c, <2>1, <2>2, DeliveryAssumption
             DEF StopInv, DeliveryTypes, LoopsFirst, NoneLate, NoneForgotten, ShadowsAreFew
<1>12. CASE WriteList
    BY <1>12, <1>t DEF WriteList, StopInv, DeliveryTypes, LoopsFirst, NoneLate, NoneForgotten,
                       ShadowsAreFew
<1>13. CASE DeliveryTick
    <2>1. PICK p, a: conn' = [conn EXCEPT !.probe = p, !.age = a] /\ p \in Int /\ a \in Int
        <3>. DEFINE p == IF conn.probe > 0 THEN conn.probe - 1 ELSE 0
                    a == IF Connected /\ conn.age < RefreshTime THEN conn.age + 1 ELSE conn.age
        <3>1. conn' = [conn EXCEPT !.probe = p, !.age = a]
            BY <1>13 DEF DeliveryTick
        <3>2. p \in Int /\ a \in Int
            BY <1>c DEF Connections
        <3>. QED BY <3>1, <3>2
    <2>2. conn' \in Connections /\ conn'.pc = conn.pc
        BY <1>c, <2>1 DEF Connections
    <2>3. list' = list /\ work' = work /\ service' = service
        BY <1>13 DEF DeliveryTick
    <2>. QED BY <1>t, <2>2, <2>3 DEF StopInv, DeliveryTypes, LoopsFirst, NoneLate, NoneForgotten,
                                     ShadowsAreFew
<1>14. ASSUME NEW kind \in DOMAIN NoWork, SignalTaskEnds(kind) PROVE StopInv'
    <2>1. work[kind] > 0 /\ UNCHANGED <<list, conn, service>>
        BY <1>14 DEF SignalTaskEnds
    <2>2. kind \in {"plain", "shadow", "latePlain", "lateShadow"}
        BY DEF NoWork
    <2>3. work \in Works /\ work.latePlain = 0 /\ work.lateShadow = 0
        BY <1>t DEF DeliveryTypes, NoneLate
    <2>4. CASE kind = "plain"
        <3>. DEFINE n == work.plain - 1
        <3>0. work' = [work EXCEPT ![kind] = work[kind] - 1] /\ work[kind] > 0
            BY <1>14 DEF SignalTaskEnds
        <3>a. work[kind] = work.plain /\ work.plain \in Nat
            BY <2>3, <2>4 DEF Works
        <3>b. work' = [work EXCEPT ![kind] = n]
            BY <3>0, <3>a
        <3>c. n \in Nat /\ work.plain > 0
            BY <3>0, <3>a
        <3>. HIDE DEF n
        <3>1. work' = [work EXCEPT !.plain = n]
            BY <2>3, <2>4, <3>b, <3>c DEF Works
        <3>2. work' \in Works /\ work'.shadow = work.shadow
              /\ work'.latePlain = 0 /\ work'.lateShadow = 0
            BY <2>3, <3>1, <3>c DEF Works
        <3>3. service # "exited"
            BY <1>t, <3>c DEF NoneForgotten
        <3>. QED BY <1>t, <2>1, <2>3, <3>2, <3>3
                 DEF StopInv, DeliveryTypes, LoopsFirst, NoneLate, NoneForgotten, ShadowsAreFew
    <2>5. CASE kind = "shadow"
        <3>. DEFINE n == work.shadow - 1
        <3>0. work' = [work EXCEPT ![kind] = work[kind] - 1] /\ work[kind] > 0
            BY <1>14 DEF SignalTaskEnds
        <3>a. work[kind] = work.shadow /\ work.shadow \in Nat
            BY <2>3, <2>5 DEF Works
        <3>b. work' = [work EXCEPT ![kind] = n]
            BY <3>0, <3>a
        <3>c. n \in Nat /\ work.shadow > 0 /\ n <= work.shadow
            BY <3>0, <3>a
        <3>. HIDE DEF n
        <3>1. work' = [work EXCEPT !.shadow = n]
            BY <2>3, <2>5, <3>b, <3>c DEF Works
        <3>2. work' \in Works /\ work'.shadow = n /\ work'.latePlain = 0 /\ work'.lateShadow = 0
            BY <2>3, <3>1, <3>c DEF Works
        <3>3. service # "exited"
            BY <1>t, <3>c DEF NoneForgotten
        <3>4. work.shadow \in Nat /\ MaxShadows \in Nat
            BY <2>3, DeliveryAssumption DEF Works
        <3>5. ShadowsAreFew'
            BY <1>t, <2>3, <3>c, <3>2, <3>4 DEF ShadowsAreFew
        <3>. QED BY <1>t, <2>1, <2>3, <3>2, <3>3, <3>5
                 DEF StopInv, DeliveryTypes, LoopsFirst, NoneLate, NoneForgotten
    <2>. QED BY <2>1, <2>2, <2>3, <2>4, <2>5
<1>15. ASSUME NEW t \in Trades, Trade(t) PROVE StopInv'
    BY <1>15, <1>t DEF Trade, StopInv, DeliveryTypes, LoopsFirst, NoneLate, NoneForgotten,
                       ShadowsAreFew
<1>16. ASSUME NEW t, NEW via, HandleNotification(t, via) PROVE StopInv'
    <2>1. /\ Deliver(t, via) /\ conn.pc = "stream" /\ service # "exited"
          /\ UNCHANGED <<list, conn, service>>
        BY <1>16 DEF HandleNotification, Serving, Streaming
    <2>2. service # "draining"
        BY <1>t, <2>1 DEF LoopsFirst
    <2>3. work' \in Works /\ work'.latePlain = 0 /\ work'.lateShadow = 0
          /\ work'.shadow <= MaxShadows
        BY <2>1, <2>2, DeliveryIsCounted
    <2>4. work'.shadow + work'.lateShadow <= MaxShadows
        BY <2>3 DEF Works
    <2>. QED BY <1>t, <2>1, <2>3, <2>4
             DEF StopInv, DeliveryTypes, LoopsFirst, NoneLate, NoneForgotten, ShadowsAreFew
<1>17. ASSUME NEW t, NEW via, SkipNotification(t, via) PROVE StopInv'
    BY <1>17, <1>t DEF SkipNotification, StopInv, DeliveryTypes, LoopsFirst, NoneLate,
                       NoneForgotten, ShadowsAreFew
<1>18. CASE UNCHANGED deliveryVars
    BY <1>18, <1>t DEF deliveryVars, StopInv, DeliveryTypes, LoopsFirst, NoneLate, NoneForgotten,
                       ShadowsAreFew
<1>. QED BY <1>1, <1>2, <1>3, <1>4, <1>5, <1>6, <1>7, <1>8, <1>9, <1>10, <1>11, <1>12, <1>13,
            <1>14, <1>15, <1>16, <1>17, <1>18 DEF DeliveryNext, ConnectStep, StopStep

\* No task is late, and none is left at the end, however many trades and subscriptions
\* there are.
LEMMA StopAlwaysInv == DeliverySpec => []StopInv
BY StopInit_Inv, StopStep_Inv, PTL DEF DeliverySpec

\* A clean stop loses no signal: the loops end before the service waits for the tasks, so
\* none is created after that (_run_service_tasks).
THEOREM CleanStopLosesNone == DeliverySpec => []StopLosesNoSignal
<1>1. StopInv => StopLosesNoSignal
    BY DEF StopInv, DeliveryTypes, Works, NoneLate, NoneForgotten, StopLosesNoSignal, NoWork
<1>. QED BY <1>1, StopAlwaysInv, PTL

\* There are never more shadow tasks than MAX_PENDING_SHADOW_SIGNALS, those included that
\* are created while the service is being stopped (schedule_paper_signal).
THEOREM ShadowTasksAreFew == DeliverySpec => [](Shadows <= MaxShadows)
<1>1. StopInv => Shadows <= MaxShadows
    BY DEF StopInv, ShadowsAreFew, Shadows
<1>. QED BY <1>1, StopAlwaysInv, PTL
-----------------------------------------------------------------------------
(* Verdicts on watched wallets                                             *)
(*                                                                         *)
(* The counters of a row and the list of its samples are written together, *)
(* and a buy is pending or among the samples that are kept, never both: so *)
(* the next evaluation of it is of a buy that is not among them, and what  *)
(* the truncation takes off the old end leaves them all different.         *)

Samples == Seq([buy: Buys, change: Int])
Rows == [status: {"ACTIVE", "COOL_DOWN"}, age: Int, pending: SUBSET Buys,
         samples: Samples, wins: Nat, losses: Nat, blocks: Int]
Differ(samples) ==
    \A i, j \in 1..Len(samples): samples[i].buy = samples[j].buy => i = j
Apart(samples, buys) == \A i \in 1..Len(samples): samples[i].buy \notin buys
JudgedRows ==
    {row \in Rows : /\ Len(row.samples) = Least(row.wins + row.losses, SampleLimit)
                    /\ Differ(row.samples) /\ Apart(row.samples, row.pending)}

VerdictInv == perf \in [Wallets -> JudgedRows] /\ monitor.due \subseteq Buys
              /\ monitor \in [due: SUBSET Buys, owed: SUBSET Wallets, now: SUBSET Wallets]

\* Status, age and rejections are not part of a verdict.
LEMMA OtherFields ==
    ASSUME NEW row \in JudgedRows
    PROVE  /\ \A st \in {"ACTIVE", "COOL_DOWN"}: [row EXCEPT !.status = st] \in JudgedRows
           /\ \A a \in Int: [row EXCEPT !.age = a] \in JudgedRows
           /\ \A b \in Int: [row EXCEPT !.blocks = b] \in JudgedRows
<1>1. ASSUME NEW r \in Rows, r.pending = row.pending, r.samples = row.samples,
             r.wins = row.wins, r.losses = row.losses
      PROVE  r \in JudgedRows
    BY <1>1 DEF JudgedRows
<1>r. row \in Rows
    BY DEF JudgedRows
<1>2. ASSUME NEW st \in {"ACTIVE", "COOL_DOWN"}
      PROVE  [row EXCEPT !.status = st] \in JudgedRows
    <2>. DEFINE r == [row EXCEPT !.status = st]
    <2>1. r \in Rows /\ r.pending = row.pending /\ r.samples = row.samples
          /\ r.wins = row.wins /\ r.losses = row.losses
        BY <1>r DEF Rows
    <2>. HIDE DEF r
    <2>2. r \in JudgedRows
        BY <1>1, <2>1
    <2>. QED BY <2>2 DEF r
<1>3. ASSUME NEW a \in Int
      PROVE  [row EXCEPT !.age = a] \in JudgedRows
    <2>. DEFINE r == [row EXCEPT !.age = a]
    <2>1. r \in Rows /\ r.pending = row.pending /\ r.samples = row.samples
          /\ r.wins = row.wins /\ r.losses = row.losses
        BY <1>r DEF Rows
    <2>. HIDE DEF r
    <2>2. r \in JudgedRows
        BY <1>1, <2>1
    <2>. QED BY <2>2 DEF r
<1>4. ASSUME NEW b \in Int
      PROVE  [row EXCEPT !.blocks = b] \in JudgedRows
    <2>. DEFINE r == [row EXCEPT !.blocks = b]
    <2>1. r \in Rows /\ r.pending = row.pending /\ r.samples = row.samples
          /\ r.wins = row.wins /\ r.losses = row.losses
        BY <1>r DEF Rows
    <2>. HIDE DEF r
    <2>2. r \in JudgedRows
        BY <1>1, <2>1
    <2>. QED BY <2>2 DEF r
<1>. QED BY <1>2, <1>3, <1>4

\* A row that is cooled down, or restored, keeps its verdicts.
LEMMA StatusChanges ==
    ASSUME NEW row \in JudgedRows
    PROVE  /\ CooledDown(row) \in JudgedRows
           /\ [row EXCEPT !.status = "ACTIVE", !.age = 0] \in JudgedRows
<1>1. ASSUME NEW st \in {"ACTIVE", "COOL_DOWN"}
      PROVE  [row EXCEPT !.status = st, !.age = 0] \in JudgedRows
    <2>. DEFINE r == [row EXCEPT !.status = st]
    <2>1. r \in JudgedRows
        BY OtherFields
    <2>. HIDE DEF r
    <2>a. \A a \in Int: [r EXCEPT !.age = a] \in JudgedRows
        BY <2>1, OtherFields, Zenon
    <2>2. [r EXCEPT !.age = 0] \in JudgedRows
        BY <2>a, 0 \in Int, Zenon
    <2>. QED BY <2>2 DEF r
<1>2. CooledDown(row) = [row EXCEPT !.status = "COOL_DOWN", !.age = 0]
    BY DEF CooledDown
<1>3. "ACTIVE" \in {"ACTIVE", "COOL_DOWN"} /\ "COOL_DOWN" \in {"ACTIVE", "COOL_DOWN"}
    OBVIOUS
<1>. QED BY <1>1, <1>2, <1>3

\* A new observation is of a buy that is not among the samples (observe_buy).
LEMMA ObservedIsPending ==
    ASSUME NEW row \in JudgedRows, NEW b \in Buys, b \notin KnownBuys(row)
    PROVE  [row EXCEPT !.pending = row.pending \cup {b}] \in JudgedRows
<1>. DEFINE q == row.pending \cup {b}
            r == [row EXCEPT !.pending = q]
<1>1. row \in Rows /\ q \in SUBSET Buys
    BY DEF JudgedRows, Rows
<1>2. Apart(row.samples, q)
    <2>1. Apart(row.samples, row.pending)
        BY DEF JudgedRows
    <2>2. \A i \in 1..Len(row.samples): row.samples[i].buy # b
        BY DEF KnownBuys, EvaluatedBuys, Judged
    <2>. QED BY <2>1, <2>2 DEF Apart
<1>. HIDE DEF q
<1>3. /\ r \in Rows /\ r.pending = q /\ r.samples = row.samples
      /\ r.wins = row.wins /\ r.losses = row.losses
    BY <1>1 DEF Rows
<1>. HIDE DEF r
<1>4. r \in JudgedRows
    BY <1>2, <1>3 DEF JudgedRows
<1>. QED BY <1>4 DEF r, q

\* One that is dropped was not evaluated (skip_observation).
LEMMA SkippedIsDropped ==
    ASSUME NEW row \in JudgedRows, NEW b
    PROVE  [row EXCEPT !.pending = row.pending \ {b}] \in JudgedRows
<1>. DEFINE q == row.pending \ {b}
            r == [row EXCEPT !.pending = q]
<1>1. row \in Rows /\ q \in SUBSET Buys
    BY DEF JudgedRows, Rows
<1>2. Apart(row.samples, q)
    BY DEF JudgedRows, Apart
<1>. HIDE DEF q
<1>3. /\ r \in Rows /\ r.pending = q /\ r.samples = row.samples
      /\ r.wins = row.wins /\ r.losses = row.losses
    BY <1>1 DEF Rows
<1>. HIDE DEF r
<1>4. r \in JudgedRows
    BY <1>2, <1>3 DEF JudgedRows
<1>. QED BY <1>4 DEF r, q

\* What is kept of a list of samples is its end, of SampleLimit at most.
LEMMA KeptIsTheEnd ==
    ASSUME NEW s \in Samples
    PROVE  /\ Kept(s) \in Samples
           /\ Len(Kept(s)) = Least(Len(s), SampleLimit)
           /\ \E d \in Nat: \A i \in 1..Len(Kept(s)): i + d \in 1..Len(s) /\ Kept(s)[i] = s[i + d]
<1>. DEFINE n == Len(s)
            k == Least(n, SampleLimit)
            d == n - k
<1>1. n \in Nat /\ SampleLimit \in Nat \ {0}
    BY WalletAssumption DEF Samples
<1>2. k \in Nat /\ k <= n
    BY <1>1 DEF Least
<1>3. Kept(s) = SubSeq(s, d + 1, n)
    BY DEF Kept
<1>. HIDE DEF k, n
<1>4. d \in Nat /\ d + 1 \in Nat /\ n - (d + 1) + 1 = k
    BY <1>1, <1>2
<1>5. \A i \in d + 1 .. n: s[i] \in [buy: Buys, change: Int]
    <2>1. \A i \in 1 .. n: s[i] \in [buy: Buys, change: Int]
        BY ElementOfSeq DEF Samples, n
    <2>. QED BY <1>1, <1>4, <2>1
<1>6. /\ SubSeq(s, d + 1, n) \in Samples
      /\ Len(SubSeq(s, d + 1, n)) = k
      /\ \A i \in 1..k: SubSeq(s, d + 1, n)[i] = s[d + 1 + i - 1]
    <2>1. d + 1 \in Int /\ n \in Int
        BY <1>1, <1>4
    <2>2. /\ SubSeq(s, d + 1, n) \in Samples
          /\ Len(SubSeq(s, d + 1, n)) = IF d + 1 <= n THEN n - (d + 1) + 1 ELSE 0
          /\ \A i \in 1 .. n - (d + 1) + 1: SubSeq(s, d + 1, n)[i] = s[d + 1 + i - 1]
        BY <1>5, <2>1, SubSeqProperties DEF Samples
    <2>. QED BY <1>1, <1>2, <1>4, <2>2
<1>7. ASSUME NEW i \in 1..k PROVE i + d \in 1..n /\ d + 1 + i - 1 = i + d
    BY <1>1, <1>2
<1>. HIDE DEF d
<1>8. \A i \in 1..Len(Kept(s)): i + d \in 1..Len(s) /\ Kept(s)[i] = s[i + d]
    BY <1>3, <1>6, <1>7 DEF n
<1>. QED BY <1>3, <1>4, <1>6, <1>8 DEF k, n

\* So what is true of all samples, or of any two, is true of those that are kept.
LEMMA KeptAreDifferent ==
    ASSUME NEW s \in Samples, Differ(s), NEW q, Apart(s, q)
    PROVE  Differ(Kept(s)) /\ Apart(Kept(s), q)
<1>1. PICK d \in Nat: \A i \in 1..Len(Kept(s)): i + d \in 1..Len(s) /\ Kept(s)[i] = s[i + d]
    BY KeptIsTheEnd
<1>2. ASSUME NEW i \in 1..Len(Kept(s)), NEW j \in 1..Len(Kept(s)),
             Kept(s)[i].buy = Kept(s)[j].buy
      PROVE  i = j
    <2>1. i + d = j + d
        BY <1>1, <1>2 DEF Differ
    <2>. QED BY <2>1
<1>3. ASSUME NEW i \in 1..Len(Kept(s)) PROVE Kept(s)[i].buy \notin q
    BY <1>1 DEF Apart
<1>. QED BY <1>2, <1>3 DEF Differ, Apart

\* A verdict on a pending buy adds one to the samples, of which the oldest may go, and one
\* to the counters (complete_observation).
LEMMA VerdictIsCounted ==
    ASSUME NEW row \in JudgedRows, NEW b \in row.pending, NEW change \in Int,
           NEW win \in Nat, NEW loss \in Nat, win + loss = row.wins + row.losses + 1
    PROVE  [row EXCEPT !.pending = row.pending \ {b},
                       !.samples = Kept(Append(row.samples, [buy |-> b, change |-> change])),
                       !.wins = win, !.losses = loss] \in JudgedRows
<1>. DEFINE q  == row.pending \ {b}
            e  == [buy |-> b, change |-> change]
            u  == row.samples
            v  == Append(u, e)
            ss == Kept(v)
            x  == [row EXCEPT !.pending = q, !.samples = ss]
            r  == [x EXCEPT !.wins = win, !.losses = loss]
<1>1. row \in Rows /\ b \in Buys /\ u \in Samples /\ e \in [buy: Buys, change: Int]
      /\ q \in SUBSET Buys
    BY DEF JudgedRows, Rows
<1>2. Differ(u) /\ Apart(u, row.pending) /\ e.buy = b
    BY DEF JudgedRows
<1>n. Len(u) = Least(row.wins + row.losses, SampleLimit)
    BY DEF JudgedRows
<1>q. b \notin q /\ q \subseteq row.pending
    OBVIOUS
<1>. HIDE DEF e, u
<1>3. /\ v \in Samples /\ Len(v) = Len(u) + 1 /\ Len(u) \in Nat /\ v[Len(u) + 1] = e
      /\ \A i \in 1..Len(u): v[i] = u[i]
    BY <1>1 DEF Samples
<1>. HIDE DEF q, v
<1>4. \A i \in 1..Len(v): i \in 1..Len(u) \/ i = Len(u) + 1
    BY <1>3
<1>5. Differ(v)
    <2>1. \A i \in 1..Len(u): v[i].buy # b
        BY <1>2, <1>3 DEF Apart
    <2>2. ASSUME NEW i \in 1..Len(v), NEW j \in 1..Len(v), v[i].buy = v[j].buy PROVE i = j
        BY <1>2, <1>3, <1>4, <2>1, <2>2 DEF Differ
    <2>. QED BY <2>2 DEF Differ
<1>6. Apart(v, q)
    BY <1>2, <1>3, <1>4, <1>q DEF Apart
<1>7. ss \in Samples /\ Len(ss) = Least(Len(v), SampleLimit) /\ Differ(ss) /\ Apart(ss, q)
    BY <1>3, <1>5, <1>6, KeptIsTheEnd, KeptAreDifferent
<1>8. Len(ss) = Least(win + loss, SampleLimit)
    <2>1. row.wins + row.losses \in Nat /\ SampleLimit \in Nat \ {0}
        BY <1>1, WalletAssumption DEF Rows
    <2>. QED BY <1>3, <1>7, <1>n, <2>1 DEF Least
<1>. HIDE DEF ss
<1>9. x \in Rows /\ x.pending = q /\ x.samples = ss
    BY <1>1, <1>7 DEF Rows
<1>. HIDE DEF x
<1>10. r \in Rows /\ r.pending = q /\ r.samples = ss /\ r.wins = win /\ r.losses = loss
    BY <1>9 DEF Rows
<1>. HIDE DEF r
<1>11. r \in JudgedRows
    BY <1>7, <1>8, <1>10 DEF JudgedRows
<1>. QED BY <1>11 DEF r, x, q, ss, v, u, e

\* The wallets that are restored keep their verdicts, whenever the scan was.
LEMMA RestoredRows ==
    ASSUME VerdictInv, NEW ws
    PROVE  Restored(ws) \in [Wallets -> JudgedRows]
<1>1. ASSUME NEW w \in Wallets
      PROVE  (IF w \in ws THEN [perf[w] EXCEPT !.status = "ACTIVE", !.age = 0] ELSE perf[w])
             \in JudgedRows
    BY StatusChanges DEF VerdictInv
<1>. QED BY <1>1 DEF Restored

\* A row is replaced, the round goes on.
LEMMA RowIsReplaced ==
    ASSUME VerdictInv, NEW w \in Wallets, NEW row \in JudgedRows, perf' = [perf EXCEPT ![w] = row]
    PROVE  perf' \in [Wallets -> JudgedRows]
BY DEF VerdictInv

LEMMA VerdictInit_Inv == WalletInit => VerdictInv
<1>. SUFFICES ASSUME WalletInit PROVE VerdictInv
    OBVIOUS
<1>1. NewWallet \in Rows /\ NewWallet.wins + NewWallet.losses = 0
      /\ NewWallet.samples = <<>>
    BY DEF NewWallet, Rows, Samples
<1>2. Len(<<>>) = Least(0, SampleLimit) /\ Differ(<<>>) /\ Apart(<<>>, NewWallet.pending)
    BY WalletAssumption DEF Least, Differ, Apart
<1>3. NewWallet \in JudgedRows
    BY <1>1, <1>2 DEF JudgedRows
<1>4. Idle \in [due: SUBSET Buys, owed: SUBSET Wallets, now: SUBSET Wallets] /\ Idle.due = {}
    BY DEF Idle
<1>. QED BY <1>3, <1>4 DEF WalletInit, VerdictInv

LEMMA VerdictStep_Inv == VerdictInv /\ [WalletNext]_walletVars => VerdictInv'
<1>. SUFFICES ASSUME VerdictInv, [WalletNext]_walletVars PROVE VerdictInv'
    OBVIOUS
<1>. DEFINE Rounds == [due: SUBSET Buys, owed: SUBSET Wallets, now: SUBSET Wallets]
<1>t. perf \in [Wallets -> JudgedRows] /\ monitor \in Rounds /\ monitor.due \subseteq Buys
    BY DEF VerdictInv
<1>b. ASSUME NEW b \in Buys PROVE BuyerOf[b] \in Wallets
    BY <1>b, WalletAssumption
<1>q. ASSUME perf' \in [Wallets -> JudgedRows], monitor' \in Rounds PROVE VerdictInv'
    BY <1>q DEF VerdictInv
<1>k. ASSUME perf' = perf, monitor' = monitor PROVE VerdictInv'
    BY <1>k, <1>t, <1>q
<1>1. ASSUME NEW b \in Buys, ObserveBuy(b) PROVE VerdictInv'
    <2>. DEFINE w   == BuyerOf[b]
                row == [perf[w] EXCEPT !.pending = perf[w].pending \cup {b}]
    <2>1. w \in Wallets /\ perf[w] \in JudgedRows /\ b \notin KnownBuys(perf[w])
        BY <1>1, <1>b, <1>t DEF ObserveBuy
    <2>2. perf' = [perf EXCEPT ![w] = row] /\ monitor' = monitor
        BY <1>1 DEF ObserveBuy
    <2>3. row \in JudgedRows
        BY <2>1, ObservedIsPending
    <2>. HIDE DEF w, row
    <2>. QED BY <1>q, <1>t, <2>1, <2>2, <2>3
<1>2. ASSUME NEW w \in UnsafeBuyers, RejectBuy(w) PROVE VerdictInv'
    <2>. DEFINE n   == IF perf[w].blocks < SafetyBlocks THEN perf[w].blocks + 1 ELSE perf[w].blocks
                row == [perf[w] EXCEPT !.blocks = n]
    <2>1. w \in Wallets /\ perf[w] \in JudgedRows
        BY <1>t, WalletAssumption
    <2>2. n \in Int
        BY <2>1 DEF JudgedRows, Rows
    <2>3. /\ perf' = [perf EXCEPT ![w] = CooledDown(row)] \/ perf' = [perf EXCEPT ![w] = row]
          /\ monitor' = [monitor EXCEPT !.now = {w}] \/ monitor' = monitor
        BY <1>2 DEF RejectBuy
    <2>. HIDE DEF n
    <2>4. row \in JudgedRows
        BY <2>1, <2>2, OtherFields
    <2>. HIDE DEF row
    <2>5. CooledDown(row) \in JudgedRows
        BY <2>4, StatusChanges
    <2>6. perf' \in [Wallets -> JudgedRows]
        BY <2>1, <2>3, <2>4, <2>5, RowIsReplaced
    <2>7. monitor' \in Rounds
        BY <1>t, <2>1, <2>3
    <2>. QED BY <1>q, <2>6, <2>7
<1>3. ASSUME NEW due \in SUBSET Buys, RoundStarts(due) PROVE VerdictInv'
    <2>1. perf' = perf /\ monitor' = [monitor EXCEPT !.due = due]
        BY <1>3 DEF RoundStarts
    <2>2. monitor' \in Rounds
        BY <1>t, <2>1
    <2>. QED BY <1>q, <1>t, <2>1, <2>2
<1>4. ASSUME NEW b \in monitor.due, NEW change \in Returns, Complete(b, change) PROVE VerdictInv'
    <2>. DEFINE w    == BuyerOf[b]
                win  == IF change > 0 THEN perf[w].wins + 1 ELSE perf[w].wins
                loss == IF change > 0 THEN perf[w].losses ELSE perf[w].losses + 1
                row  == [perf[w] EXCEPT !.pending = perf[w].pending \ {b},
                                        !.samples = Kept(Append(perf[w].samples,
                                                         [buy |-> b, change |-> change])),
                                        !.wins = win, !.losses = loss]
    <2>1. w \in Wallets /\ perf[w] \in JudgedRows /\ change \in Int /\ b \in Buys
        BY <1>b, <1>t, WalletAssumption
    <2>2. win \in Nat /\ loss \in Nat /\ win + loss = perf[w].wins + perf[w].losses + 1
        <3>1. perf[w].wins \in Nat /\ perf[w].losses \in Nat
            BY <2>1 DEF JudgedRows, Rows
        <3>. HIDE DEF w
        <3>. QED BY <2>1, <3>1
    <2>3. b \in perf[w].pending
        BY <1>4 DEF Complete
    <2>4. \E cool \in BOOLEAN:
             /\ perf' = [perf EXCEPT ![w] = IF cool THEN CooledDown(row) ELSE row]
             /\ monitor' = [monitor EXCEPT !.due = monitor.due \ {b},
                                           !.owed = IF cool THEN monitor.owed \cup {w}
                                                    ELSE monitor.owed]
        <3>. DEFINE cool == /\ change <= -50 \/ (row.wins + row.losses >= 3 /\ Poor(row))
                            /\ MayCool(row)
        <3>1. cool \in BOOLEAN
            OBVIOUS
        <3>2. /\ perf' = [perf EXCEPT ![w] = IF cool THEN CooledDown(row) ELSE row]
              /\ monitor' = [monitor EXCEPT !.due = monitor.due \ {b},
                                            !.owed = IF cool THEN monitor.owed \cup {w}
                                                     ELSE monitor.owed]
            BY <1>4 DEF Complete
        <3>. QED BY <3>1, <3>2
    <2>. HIDE DEF win, loss
    <2>5. row \in JudgedRows
        BY <2>1, <2>2, <2>3, VerdictIsCounted
    <2>. HIDE DEF row
    <2>6. CooledDown(row) \in JudgedRows
        BY <2>5, StatusChanges
    <2>7. PICK cool \in BOOLEAN:
             /\ perf' = [perf EXCEPT ![w] = IF cool THEN CooledDown(row) ELSE row]
             /\ monitor' = [monitor EXCEPT !.due = monitor.due \ {b},
                                           !.owed = IF cool THEN monitor.owed \cup {w}
                                                    ELSE monitor.owed]
        BY <2>4
    <2>. HIDE DEF w
    <2>8. perf' \in [Wallets -> JudgedRows]
        <3>. DEFINE r == IF cool THEN CooledDown(row) ELSE row
        <3>1. r \in JudgedRows /\ perf' = [perf EXCEPT ![w] = r]
            BY <2>5, <2>6, <2>7
        <3>. HIDE DEF r
        <3>. QED BY <2>1, <3>1, RowIsReplaced
    <2>9. monitor' \in Rounds
        <3>. DEFINE d == monitor.due \ {b}
                    o == IF cool THEN monitor.owed \cup {w} ELSE monitor.owed
        <3>1. d \in SUBSET Buys /\ o \in SUBSET Wallets
            BY <1>t, <2>1
        <3>2. monitor' = [monitor EXCEPT !.due = d, !.owed = o]
            BY <2>7
        <3>. HIDE DEF d, o
        <3>. QED BY <1>t, <3>1, <3>2
    <2>. QED BY <1>q, <2>8, <2>9
<1>5. ASSUME NEW b \in monitor.due, Skip(b) PROVE VerdictInv'
    <2>. DEFINE w   == BuyerOf[b]
                row == [perf[w] EXCEPT !.pending = perf[w].pending \ {b}]
                d   == monitor.due \ {b}
    <2>1. w \in Wallets /\ perf[w] \in JudgedRows /\ d \in SUBSET Buys
        BY <1>b, <1>t
    <2>2. perf' = [perf EXCEPT ![w] = row] /\ monitor' = [monitor EXCEPT !.due = d]
        BY <1>5 DEF Skip
    <2>3. row \in JudgedRows
        BY <2>1, SkippedIsDropped
    <2>. HIDE DEF w, row, d
    <2>4. monitor' \in Rounds
        BY <1>t, <2>1, <2>2
    <2>5. perf' \in [Wallets -> JudgedRows]
        BY <2>1, <2>2, <2>3, RowIsReplaced
    <2>. QED BY <1>q, <2>4, <2>5
<1>6. ASSUME NEW b \in monitor.due, Retry(b) PROVE VerdictInv'
    <2>1. perf' = perf /\ monitor' = [monitor EXCEPT !.due = monitor.due \ {b}]
        BY <1>6 DEF Retry
    <2>2. monitor' \in Rounds
        BY <1>t, <2>1
    <2>. QED BY <1>q, <1>t, <2>1, <2>2
<1>7. ASSUME NEW w \in monitor.owed, RoundReplaces(w) PROVE VerdictInv'
    <2>. DEFINE o == monitor.owed \ {w}
    <2>1. perf' = perf /\ monitor' = [monitor EXCEPT !.owed = o, !.now = {w}]
        BY <1>7 DEF RoundReplaces
    <2>2. o \in SUBSET Wallets /\ {w} \in SUBSET Wallets
        BY <1>t
    <2>. HIDE DEF o
    <2>3. monitor' \in Rounds
        BY <1>t, <2>1, <2>2
    <2>. QED BY <1>q, <1>t, <2>1, <2>3
<1>8. CASE Replace \/ ReplaceFails
    <2>1. perf' = perf /\ monitor' = [monitor EXCEPT !.now = {}]
        BY <1>8 DEF Replace, ReplaceFails
    <2>2. monitor' \in Rounds
        BY <1>t, <2>1
    <2>. QED BY <1>q, <1>t, <2>1, <2>2
<1>9. CASE MonitorRestarts
    <2>1. perf' = perf /\ monitor' = Idle /\ Idle \in Rounds
        BY <1>9 DEF MonitorRestarts, Idle
    <2>. QED BY <1>q, <1>t, <2>1
<1>10. CASE MonitorRecovers
    BY <1>10, <1>q, <1>t, RestoredRows DEF MonitorRecovers
<1>11. ASSUME NEW started, Trigger(started) PROVE VerdictInv'
    BY <1>11, <1>k DEF Trigger
<1>12. CASE FeederStep
    <2>1. CASE perf' = perf /\ monitor' = monitor
        BY <2>1, <1>k
    <2>2. CASE perf' = Restored(feeder.due) /\ monitor' = monitor
        BY <2>2, <1>q, <1>t, RestoredRows
    <2>. QED BY <1>12, <2>1, <2>2
             DEF FeederStep, FeederScans, FeederRecovers, FeederReads, Replenish, Publish, Discover
<1>13. CASE FeederDies
    BY <1>13, <1>k DEF FeederDies
<1>14. CASE WalletTick
    <2>1. monitor' = monitor
          /\ perf' = [w \in Wallets |-> IF Cooling(w) /\ perf[w].age < CoolTime
                                       THEN [perf[w] EXCEPT !.age = perf[w].age + 1] ELSE perf[w]]
        BY <1>14 DEF WalletTick
    <2>2. ASSUME NEW w \in Wallets
          PROVE  [perf[w] EXCEPT !.age = perf[w].age + 1] \in JudgedRows /\ perf[w] \in JudgedRows
        <3>. DEFINE a == perf[w].age + 1
        <3>1. perf[w] \in JudgedRows /\ a \in Int
            BY <1>t DEF JudgedRows, Rows
        <3>. HIDE DEF a
        <3>2. [perf[w] EXCEPT !.age = a] \in JudgedRows
            BY <3>1, OtherFields
        <3>. QED BY <3>1, <3>2 DEF a
    <2>3. perf' \in [Wallets -> JudgedRows]
        BY <2>1, <2>2
    <2>. QED BY <1>q, <1>t, <2>1, <2>3
<1>15. CASE UNCHANGED walletVars
    BY <1>15, <1>k DEF walletVars
<1>. QED BY <1>1, <1>2, <1>3, <1>4, <1>5, <1>6, <1>7, <1>8, <1>9, <1>10, <1>11, <1>12, <1>13,
            <1>14, <1>15 DEF WalletNext, EvaluateStep, Maintain

\* Every evaluation counts as one win or one loss, and a buy is judged again only after
\* SampleLimit others of its wallet, for any number of wallets and buys and any limit,
\* however often it is delivered, retried or interrupted (observe_buy,
\* complete_observation).
THEOREM RecentBuysAreJudgedOnce == WalletSpec => []RecentBuysJudgedOnce
<1>1. VerdictInv => RecentBuysJudgedOnce
    BY DEF VerdictInv, JudgedRows, Differ, Apart, RecentBuysJudgedOnce
<1>. QED BY <1>1, VerdictInit_Inv, VerdictStep_Inv, PTL DEF WalletSpec
-----------------------------------------------------------------------------
(* The cooldowns of the momentum route                                     *)
(*                                                                         *)
(* The time since a signal and what is left of its cooldown add up to the  *)
(* cooldown, but for what it was dated back by, which is never more than a *)
(* poll may take.  What a poll found rested stays so while it runs: nobody *)
(* but the poll itself starts a cooldown.                                  *)

Kinds    == {"entry", "shadow"}
PollTime == ConfirmTime + FetchTime
PollState ==
    [pc: {"wait", "confirm", "refresh"}, mint: Mints \cup {NoMint}, score: Nat,
     near: SUBSET Pair, whales: SUBSET Strangers, left: Int, late: 0..PollTime,
     veiled: SUBSET Mints, open: BOOLEAN]

MomentumTypes ==
    /\ route \in PollState
    /\ cooling \in [Kinds -> [Mints -> 0..EntryCool]]
    /\ since \in [Kinds -> [Mints -> 0..EntryCool]]
    /\ gap \in 0..CaptureGap /\ captures \in 0..MaxCaptures

TimesAddUp ==
    \A k \in Kinds, m \in Mints: since[k][m] + cooling[k][m] >= EntryCool - PollTime
PollKnowsTheRested ==
    route.pc # "wait" =>
        /\ route.mint \in Mints /\ cooling["entry"][route.mint] = 0
        /\ \A m \in Mints \ route.veiled: cooling["shadow"][m] = 0

MomentumInv == MomentumTypes /\ TimesAddUp /\ PollKnowsTheRested

\* The two dictionaries of cooldowns, one function.
LEMMA TwoClocks ==
    ASSUME NEW e, NEW s
    PROVE  /\ [entry |-> e, shadow |-> s]["entry"] = e
           /\ [entry |-> e, shadow |-> s]["shadow"] = s
           /\ \A T: e \in T /\ s \in T => [entry |-> e, shadow |-> s] \in [Kinds -> T]
BY DEF Kinds

LEMMA WatchingIsAPoll == Watching \in PollState /\ Watching.pc = "wait"
BY MomentumAssumption DEF Watching, PollState, PollTime

\* What is captured was not cooling down when the poll began (schedule_market_shadow).
LEMMA CapturedWasFresh ==
    ASSUME NEW r, NEW own, NEW m \in Capturable(r, own),
           own = {} \/ \E x: own = {x}
    PROVE  m \notin r.veiled /\ ~(captures >= MaxCaptures)
<1>1. /\ ~(captures >= MaxCaptures)
      /\ \/ Fresh(r, own) # {} /\ m \in {p.mint : p \in own}
         \/ m \in {p.mint : p \in FirstNear(Fresh(r, r.near))}
    BY DEF Capturable
<1>2. CASE Fresh(r, own) # {} /\ m \in {p.mint : p \in own}
    <2>1. PICK x: own = {x}
        BY <1>2
    <2>2. m = x.mint /\ x.mint \notin r.veiled
        BY <1>2, <2>1 DEF Fresh
    <2>. QED BY <1>1, <2>2
<1>3. CASE m \in {p.mint : p \in FirstNear(Fresh(r, r.near))}
    <2>1. PICK p \in Fresh(r, r.near): m = p.mint
        BY <1>3 DEF FirstNear
    <2>. QED BY <1>1, <2>1 DEF Fresh
<1>. QED BY <1>1, <1>2, <1>3

\* The end of a poll: what it signals and what it captures had rested, at the start of
\* the poll and therefore still.
LEMMA PollEnds ==
    ASSUME MomentumInv, NEW r, NEW own, own = {} \/ \E x: own = {x},
           NEW entered \in SUBSET Mints,
           \A m \in entered: cooling["entry"][m] = 0,
           \A m \in Mints \ r.veiled: cooling["shadow"][m] = 0,
           Finish(r, own, entered)
    PROVE  /\ MomentumInv'
           /\ \A k \in Kinds, m \in Mints:
                 since'[k][m] < since[k][m] => since[k][m] >= EntryCool - PollTime
<1>. DEFINE options  == Capturable(r, own)
            captured == IF options = {} THEN {} ELSE {CHOOSE m \in options : TRUE}
            ce == [m \in Mints |-> IF m \in entered THEN LeftOf(EntryCool) ELSE cooling.entry[m]]
            cs == [m \in Mints |-> IF m \in captured THEN LeftOf(EntryCool) ELSE cooling.shadow[m]]
            se == [m \in Mints |-> IF m \in entered THEN 0 ELSE since.entry[m]]
            ss == [m \in Mints |-> IF m \in captured THEN 0 ELSE since.shadow[m]]
            Time == 0..EntryCool
<1>1. /\ route' = Watching /\ cooling' = [entry |-> ce, shadow |-> cs]
      /\ since' = [entry |-> se, shadow |-> ss]
      /\ gap' = IF captured = {} THEN gap ELSE LeftOf(CaptureGap)
      /\ captures' = captures + Cardinality(captured)
    BY DEF Finish
<1>2. ASSUME NEW m \in captured PROVE m \in options
    BY <1>2
<1>3. captured = {} \/ \E m \in options: captured = {m}
    OBVIOUS
<1>4. ASSUME NEW m \in captured \cap Mints PROVE cooling["shadow"][m] = 0
    BY <1>2, <1>4, CapturedWasFresh
<1>5. captures' \in 0..MaxCaptures
    <2>1. CASE captured = {}
        BY <1>1, <2>1, FS_EmptySet DEF MomentumInv, MomentumTypes
    <2>2. CASE \E m \in options: captured = {m}
        <3>1. Cardinality(captured) = 1
            BY <2>2, FS_Singleton
        <3>2. captures \in Nat /\ MaxCaptures \in Nat /\ captures <= MaxCaptures
            BY MomentumAssumption DEF MomentumInv, MomentumTypes
        <3>3. PICK m \in options: TRUE
            BY <2>2
        <3>4. ~(captures >= MaxCaptures)
            BY <3>3, CapturedWasFresh, Zenon
        <3>. QED BY <1>1, <3>1, <3>2, <3>4
    <2>. QED BY <1>3, <2>1, <2>2
<1>6. LeftOf(EntryCool) \in Time /\ LeftOf(EntryCool) >= EntryCool - PollTime
    BY MomentumAssumption DEF MomentumInv, MomentumTypes, PollState, PollTime, LeftOf
<1>7. LeftOf(CaptureGap) \in 0..CaptureGap
    BY MomentumAssumption DEF MomentumInv, MomentumTypes, PollState, PollTime, LeftOf
<1>8. gap' \in 0..CaptureGap
    BY <1>1, <1>7 DEF MomentumInv, MomentumTypes
<1>9. ASSUME NEW k \in Kinds, NEW m \in Mints
      PROVE  since[k][m] \in Time /\ cooling[k][m] \in Time
             /\ since[k][m] + cooling[k][m] >= EntryCool - PollTime
    BY DEF MomentumInv, MomentumTypes, TimesAddUp
<1>10. /\ cooling["entry"] = cooling.entry /\ cooling["shadow"] = cooling.shadow
       /\ since["entry"] = since.entry /\ since["shadow"] = since.shadow
    BY DEF MomentumInv, MomentumTypes, Kinds
<1>11. "entry" \in Kinds /\ "shadow" \in Kinds
    BY DEF Kinds
<1>12. EntryCool \in Nat /\ PollTime \in Nat /\ 0 \in Time
    BY MomentumAssumption DEF PollTime
<1>. HIDE DEF options, captured
<1>13. ASSUME NEW m \in Mints
       PROVE  /\ ce[m] = IF m \in entered THEN LeftOf(EntryCool) ELSE cooling["entry"][m]
              /\ cs[m] = IF m \in captured THEN LeftOf(EntryCool) ELSE cooling["shadow"][m]
              /\ se[m] = IF m \in entered THEN 0 ELSE since["entry"][m]
              /\ ss[m] = IF m \in captured THEN 0 ELSE since["shadow"][m]
    BY <1>10
<1>14. /\ ce \in [Mints -> Time] /\ cs \in [Mints -> Time]
       /\ se \in [Mints -> Time] /\ ss \in [Mints -> Time]
    <2>. HIDE DEF Time
    <2>1. ASSUME NEW m \in Mints
          PROVE  ce[m] \in Time /\ cs[m] \in Time /\ se[m] \in Time /\ ss[m] \in Time
        BY <1>6, <1>9, <1>11, <1>12, <1>13
    <2>. QED BY <2>1
<1>. HIDE DEF ce, cs, se, ss
<1>15. cooling' \in [Kinds -> [Mints -> Time]] /\ since' \in [Kinds -> [Mints -> Time]]
    <2>. HIDE DEF Time
    <2>. QED BY <1>1, <1>14, TwoClocks
<1>16. /\ cooling'["entry"] = ce /\ cooling'["shadow"] = cs
       /\ since'["entry"] = se /\ since'["shadow"] = ss
    BY <1>1, TwoClocks
<1>17. MomentumTypes'
    BY <1>1, <1>5, <1>8, <1>15, WatchingIsAPoll DEF MomentumTypes
<1>18. TimesAddUp'
    <2>1. ASSUME NEW m \in Mints
          PROVE  se[m] + ce[m] >= EntryCool - PollTime /\ ss[m] + cs[m] >= EntryCool - PollTime
        BY <1>6, <1>9, <1>11, <1>12, <1>13
    <2>. QED BY <1>16, <2>1 DEF TimesAddUp, Kinds
<1>19. PollKnowsTheRested'
    BY <1>1, WatchingIsAPoll DEF PollKnowsTheRested
<1>20. ASSUME NEW k \in Kinds, NEW m \in Mints, since'[k][m] < since[k][m]
       PROVE  since[k][m] >= EntryCool - PollTime
    <2>1. cooling[k][m] = 0
        <3>1. CASE k = "entry"
            <4>1. m \in entered
                BY <1>9, <1>13, <1>16, <1>20, <3>1
            <4>. QED BY <3>1, <4>1
        <3>2. CASE k = "shadow"
            <4>1. m \in captured
                BY <1>9, <1>13, <1>16, <1>20, <3>2
            <4>. QED BY <1>4, <3>2, <4>1
        <3>. QED BY <3>1, <3>2 DEF Kinds
    <2>. QED BY <1>9, <1>12, <2>1
<1>. QED BY <1>17, <1>18, <1>19, <1>20 DEF MomentumInv
\* A step of the poll that starts and ends no cooldown.
LEMMA PollGoesOn ==
    ASSUME MomentumInv, route' \in PollState, PollKnowsTheRested',
           UNCHANGED <<cooling, gap, captures, since>>
    PROVE  MomentumInv'
BY DEF MomentumInv, MomentumTypes, TimesAddUp

LEMMA MomentumInit_Inv == MomentumInit => MomentumInv
<1>. SUFFICES ASSUME MomentumInit PROVE MomentumInv
    OBVIOUS
<1>. DEFINE zero == [m \in Mints |-> 0]
            full == [m \in Mints |-> EntryCool]
            Time == 0..EntryCool
<1>1. EntryCool \in Nat /\ CaptureGap \in Nat /\ MaxCaptures \in Nat /\ PollTime \in Nat
    BY MomentumAssumption DEF PollTime
<1>2. zero \in [Mints -> Time] /\ full \in [Mints -> Time]
    BY <1>1
<1>3. cooling = [entry |-> zero, shadow |-> zero] /\ since = [entry |-> full, shadow |-> full]
    BY DEF MomentumInit, NoCooling
<1>. HIDE DEF zero, full, Time
<1>4. cooling \in [Kinds -> [Mints -> Time]] /\ since \in [Kinds -> [Mints -> Time]]
    BY <1>2, <1>3, TwoClocks
<1>5. /\ cooling["entry"] = zero /\ cooling["shadow"] = zero
      /\ since["entry"] = full /\ since["shadow"] = full
    BY <1>3, TwoClocks
<1>6. MomentumTypes
    BY <1>1, <1>4, WatchingIsAPoll DEF MomentumInit, MomentumTypes, Time
<1>7. TimesAddUp
    BY <1>1, <1>5 DEF TimesAddUp, Kinds, zero, full
<1>8. PollKnowsTheRested
    BY WatchingIsAPoll DEF MomentumInit, PollKnowsTheRested
<1>. QED BY <1>6, <1>7, <1>8 DEF MomentumInv

\* What a poll keeps of the cooldowns at its start.
LEMMA StartedKnows ==
    ASSUME MomentumInv, NEW feed \in Feeds
    PROVE  /\ Started(feed) \in PollState
           /\ \A m \in Mints \ Started(feed).veiled: cooling["shadow"][m] = 0
<1>. DEFINE near   == NearMisses(feed)
            open   == (gap = 0)
            veiled == {m \in Mints : cooling.shadow[m] > 0}
            x      == [Watching EXCEPT !.near = near]
            y      == [x EXCEPT !.open = open]
            z      == [y EXCEPT !.veiled = veiled]
<1>1. near \in SUBSET Pair /\ open \in BOOLEAN /\ veiled \in SUBSET Mints
    BY MomentumAssumption DEF NearMisses
<1>2. \A m \in Mints \ veiled: cooling["shadow"][m] = 0
    <2>1. cooling["shadow"] = cooling.shadow /\ "shadow" \in Kinds
        BY DEF MomentumInv, MomentumTypes, Kinds
    <2>2. \A m \in Mints: cooling["shadow"][m] \in Nat
        BY <2>1 DEF MomentumInv, MomentumTypes
    <2>. QED BY <2>1, <2>2
<1>3. Started(feed) = z
    BY DEF Started
<1>. HIDE DEF near, open, veiled
<1>4. x \in PollState
    BY <1>1, WatchingIsAPoll DEF PollState
<1>. HIDE DEF x
<1>5. y \in PollState
    BY <1>1, <1>4 DEF PollState
<1>. HIDE DEF y
<1>6. z \in PollState /\ z.veiled = veiled
    BY <1>1, <1>5 DEF PollState
<1>. HIDE DEF z
<1>. QED BY <1>2, <1>3, <1>6

\* A step keeps the invariant and signals or captures nothing too early.
LEMMA MomentumStep_Inv ==
    ASSUME MomentumInv, [MomentumNext]_momentumVars
    PROVE  /\ MomentumInv'
           /\ \A k \in Kinds, m \in Mints:
                 since'[k][m] < since[k][m] => since[k][m] >= EntryCool - PollTime
<1>. DEFINE Spaced == \A k \in Kinds, m \in Mints:
                        since'[k][m] < since[k][m] => since[k][m] >= EntryCool - PollTime
<1>. SUFFICES MomentumInv' /\ Spaced
    OBVIOUS
<1>t. MomentumTypes /\ TimesAddUp /\ PollKnowsTheRested
    BY DEF MomentumInv
<1>i. ASSUME NEW k \in Kinds, NEW m \in Mints
      PROVE  since[k][m] \in 0..EntryCool /\ cooling[k][m] \in 0..EntryCool /\ EntryCool \in Nat
    BY <1>t, MomentumAssumption DEF MomentumTypes
<1>s. ASSUME since' = since PROVE Spaced
    BY <1>s, <1>i
<1>1. ASSUME NEW feed \in Feeds, PollNothing(feed) PROVE MomentumInv' /\ Spaced
    <2>1. Finish(Started(feed), {}, {}) /\ {} \in SUBSET Mints
        BY <1>1 DEF PollNothing
    <2>. QED BY <2>1, StartedKnows, PollEnds
<1>2. ASSUME NEW feed \in Feeds, NEW p \in feed, NEW n \in 0..MaxSignatures,
             PollCandidate(feed, p, n)
      PROVE  MomentumInv' /\ Spaced
    <2>. DEFINE r == Started(feed)
                x == [r EXCEPT !.pc = "confirm", !.mint = p.mint]
                w == [x EXCEPT !.score = p.score]
                y == [w EXCEPT !.left = n]
    <2>1. /\ r \in PollState /\ \A m \in Mints \ r.veiled: cooling["shadow"][m] = 0
        BY StartedKnows
    <2>2. p.mint \in Mints /\ p.score \in Nat /\ cooling.entry[p.mint] = 0
        BY <1>2, MomentumAssumption DEF PollCandidate, Best, Rested, Pair
    <2>3. cooling["entry"][p.mint] = 0
        BY <1>t, <2>2 DEF MomentumTypes, Kinds
    <2>4. route' = y /\ UNCHANGED <<cooling, gap, captures, since>>
        BY <1>2 DEF PollCandidate
    <2>. HIDE DEF r
    <2>5. x \in PollState /\ x.veiled = r.veiled /\ x.mint = p.mint
        BY <2>1, <2>2 DEF PollState
    <2>. HIDE DEF x
    <2>a. w \in PollState /\ w.veiled = r.veiled /\ w.mint = p.mint
        BY <2>2, <2>5 DEF PollState
    <2>. HIDE DEF w
    <2>b. n \in Int
        OBVIOUS
    <2>6. y \in PollState /\ y.veiled = r.veiled /\ y.mint = p.mint
        BY <2>a, <2>b DEF PollState
    <2>. HIDE DEF y
    <2>7. PollKnowsTheRested'
        BY <2>1, <2>2, <2>3, <2>4, <2>6 DEF PollKnowsTheRested
    <2>. QED BY <1>s, <2>4, <2>6, <2>7, PollGoesOn
<1>3. ASSUME NEW found \in SUBSET Strangers, ReadTransaction(found) PROVE MomentumInv' /\ Spaced
    <2>. DEFINE n == route.left - 1
                ws == route.whales \cup found
    <2>1. /\ route' = [route EXCEPT !.left = n, !.whales = ws]
          /\ UNCHANGED <<cooling, gap, captures, since>>
        BY <1>3 DEF ReadTransaction
    <2>2. route \in PollState /\ n \in Int /\ ws \in SUBSET Strangers
        BY <1>t DEF MomentumTypes, PollState
    <2>. HIDE DEF n, ws
    <2>3. /\ route' \in PollState /\ route'.pc = route.pc /\ route'.mint = route.mint
          /\ route'.veiled = route.veiled
        BY <2>1, <2>2 DEF PollState
    <2>4. PollKnowsTheRested'
        BY <1>t, <2>1, <2>3 DEF PollKnowsTheRested
    <2>. QED BY <1>s, <2>1, <2>3, <2>4, PollGoesOn
<1>4. CASE route.pc # "wait" /\ Finish(route, Own, {})
    <2>1. \E x: Own = {x}
        BY DEF Own
    <2>2. \A m \in Mints \ route.veiled: cooling["shadow"][m] = 0
        BY <1>t, <1>4 DEF PollKnowsTheRested
    <2>3. {} \in SUBSET Mints
        OBVIOUS
    <2>. QED BY <1>4, <2>1, <2>2, <2>3, PollEnds
<1>5. CASE EnoughWhales
    <2>. DEFINE x == [route EXCEPT !.pc = "refresh"]
                w == [x EXCEPT !.left = 0]
                y == [w EXCEPT !.whales = {}]
    <2>1. route' = y /\ UNCHANGED <<cooling, gap, captures, since>> /\ route.pc = "confirm"
        BY <1>5 DEF EnoughWhales
    <2>2. x \in PollState /\ x.veiled = route.veiled /\ x.mint = route.mint
        BY <1>t DEF MomentumTypes, PollState
    <2>. HIDE DEF x
    <2>a. w \in PollState /\ w.veiled = route.veiled /\ w.mint = route.mint
        BY <2>2 DEF PollState
    <2>. HIDE DEF w
    <2>3. y \in PollState /\ y.veiled = route.veiled /\ y.mint = route.mint
        BY <2>a DEF PollState
    <2>. HIDE DEF y
    <2>4. PollKnowsTheRested'
        BY <1>t, <2>1, <2>3 DEF PollKnowsTheRested
    <2>. QED BY <1>s, <2>1, <2>3, <2>4, PollGoesOn
<1>6. CASE route.pc # "wait" /\ Finish(route, {}, {route.mint})
    <2>1. /\ {route.mint} \in SUBSET Mints /\ cooling["entry"][route.mint] = 0
          /\ \A m \in Mints \ route.veiled: cooling["shadow"][m] = 0
        BY <1>t, <1>6 DEF PollKnowsTheRested
    <2>. QED BY <1>6, <2>1, PollEnds
<1>7. CASE PollFails
    <2>1. route' = Watching /\ UNCHANGED <<cooling, gap, captures, since>>
        BY <1>7 DEF PollFails
    <2>2. PollKnowsTheRested'
        BY <2>1, WatchingIsAPoll DEF PollKnowsTheRested
    <2>. QED BY <1>s, <2>1, <2>2, WatchingIsAPoll, PollGoesOn
<1>8. CASE CaptureEnds
    <2>1. /\ captures' \in 0..MaxCaptures /\ UNCHANGED <<route, cooling, gap, since>>
        BY <1>t, <1>8, MomentumAssumption DEF CaptureEnds, MomentumTypes
    <2>2. MomentumInv'
        BY <1>t, <2>1 DEF MomentumInv, MomentumTypes, TimesAddUp, PollKnowsTheRested
    <2>. QED BY <1>s, <2>1, <2>2
<1>9. CASE RouteRestarts
    <2>. DEFINE zero == [m \in Mints |-> 0]
                full == [m \in Mints |-> EntryCool]
                Time == 0..EntryCool
    <2>1. /\ route' = Watching /\ gap' = 0 /\ captures' = 0
          /\ cooling' = [entry |-> zero, shadow |-> zero]
          /\ since' = [entry |-> full, shadow |-> full]
        BY <1>9 DEF RouteRestarts, NoCooling
    <2>2. EntryCool \in Nat /\ CaptureGap \in Nat /\ MaxCaptures \in Nat /\ PollTime \in Nat
        BY MomentumAssumption DEF PollTime
    <2>3. zero \in [Mints -> Time] /\ full \in [Mints -> Time]
        BY <2>2
    <2>. HIDE DEF zero, full, Time
    <2>4. cooling' \in [Kinds -> [Mints -> Time]] /\ since' \in [Kinds -> [Mints -> Time]]
        BY <2>1, <2>3, TwoClocks
    <2>5. /\ cooling'["entry"] = zero /\ cooling'["shadow"] = zero
          /\ since'["entry"] = full /\ since'["shadow"] = full
        BY <2>1, TwoClocks
    <2>6. MomentumTypes'
        BY <2>1, <2>2, <2>4, WatchingIsAPoll DEF MomentumTypes, Time
    <2>7. TimesAddUp'
        BY <2>2, <2>5 DEF TimesAddUp, Kinds, zero, full
    <2>8. PollKnowsTheRested'
        BY <2>1, WatchingIsAPoll DEF PollKnowsTheRested
    <2>9. Spaced
        BY <1>i, <2>5 DEF Kinds, full
    <2>. QED BY <2>6, <2>7, <2>8, <2>9 DEF MomentumInv
<1>10. CASE MomentumTick
    <2>. DEFINE late == IF route.pc = "wait" THEN 0 ELSE route.late + 1
                Time == 0..EntryCool
    <2>1. /\ route' = [route EXCEPT !.late = late] /\ gap' = Sooner(gap) /\ captures' = captures
          /\ cooling' = [k \in DOMAIN cooling |-> [m \in Mints |-> Sooner(cooling[k][m])]]
          /\ since' = [k \in DOMAIN since |-> [m \in Mints |-> Grown(since[k][m])]]
        BY <1>10 DEF MomentumTick
    <2>2. DOMAIN cooling = Kinds /\ DOMAIN since = Kinds
        BY <1>t DEF MomentumTypes
    <2>3. route \in PollState /\ late \in 0..PollTime
        <3>1. route \in PollState /\ InTime
            BY <1>t, <1>10 DEF MomentumTypes, MomentumTick
        <3>2. route.pc \in {"wait", "confirm", "refresh"} /\ route.late \in 0..ConfirmTime + FetchTime
            BY <3>1 DEF PollState, PollTime
        <3>a. /\ route.pc = "confirm" => route.late < ConfirmTime
              /\ route.pc = "refresh" => route.late < ConfirmTime + FetchTime
            BY <3>1 DEF InTime
        <3>b. ConfirmTime \in Nat /\ FetchTime \in Nat
            BY MomentumAssumption
        <3>3. route.pc # "wait" => route.late < ConfirmTime + FetchTime
            BY <3>2, <3>a, <3>b
        <3>4. late \in 0..ConfirmTime + FetchTime
            BY <3>2, <3>3, MomentumAssumption
        <3>. QED BY <3>1, <3>4 DEF PollTime
    <2>. HIDE DEF late
    <2>4. /\ route' \in PollState /\ route'.pc = route.pc /\ route'.mint = route.mint
          /\ route'.veiled = route.veiled
        BY <2>1, <2>3 DEF PollState
    <2>5. gap' \in 0..CaptureGap
        BY <1>t, <2>1, MomentumAssumption DEF MomentumTypes, Sooner
    <2>6. ASSUME NEW k \in Kinds, NEW m \in Mints
          PROVE  /\ cooling'[k][m] = Sooner(cooling[k][m]) /\ since'[k][m] = Grown(since[k][m])
                 /\ Sooner(cooling[k][m]) \in Time /\ Grown(since[k][m]) \in Time
                 /\ cooling[k][m] = 0 => Sooner(cooling[k][m]) = 0
                 /\ Grown(since[k][m]) >= since[k][m]
                 /\ Grown(since[k][m]) + Sooner(cooling[k][m]) >= EntryCool - PollTime
        <3>1. cooling'[k][m] = Sooner(cooling[k][m]) /\ since'[k][m] = Grown(since[k][m])
            BY <2>1, <2>2
        <3>. DEFINE c == cooling[k][m]
                    s == since[k][m]
        <3>2. c \in Time /\ s \in Time /\ EntryCool \in Nat /\ s + c >= EntryCool - PollTime
            BY <1>i, <1>t DEF TimesAddUp
        <3>3. PollTime \in Nat
            BY MomentumAssumption DEF PollTime
        <3>. HIDE DEF c, s
        <3>4. /\ Sooner(c) \in Time /\ Grown(s) \in Time /\ (c = 0 => Sooner(c) = 0)
              /\ Grown(s) >= s /\ Grown(s) + Sooner(c) >= EntryCool - PollTime
            BY <3>2, <3>3 DEF Sooner, Grown
        <3>. QED BY <3>1, <3>4 DEF c, s
    <2>. HIDE DEF Time
    <2>7. cooling' \in [Kinds -> [Mints -> Time]] /\ since' \in [Kinds -> [Mints -> Time]]
        BY <2>1, <2>2, <2>6
    <2>8. MomentumTypes'
        BY <1>t, <2>1, <2>4, <2>5, <2>7 DEF MomentumTypes, Time
    <2>9. TimesAddUp'
        BY <2>6 DEF TimesAddUp
    <2>10. PollKnowsTheRested'
        BY <1>t, <2>4, <2>6 DEF PollKnowsTheRested, Kinds
    <2>11. Spaced
        <3>1. SUFFICES ASSUME NEW k \in Kinds, NEW m \in Mints PROVE ~(since'[k][m] < since[k][m])
            OBVIOUS
        <3>2. since'[k][m] >= since[k][m] /\ since'[k][m] \in Int /\ since[k][m] \in Int
            BY <1>i, <2>6 DEF Time
        <3>. QED BY <3>2
    <2>. QED BY <2>8, <2>9, <2>10, <2>11 DEF MomentumInv
<1>11. CASE UNCHANGED momentumVars
    <2>1. UNCHANGED <<route, cooling, gap, captures, since>>
        BY <1>11 DEF momentumVars
    <2>2. MomentumInv'
        BY <1>t, <2>1 DEF MomentumInv, MomentumTypes, TimesAddUp, PollKnowsTheRested
    <2>. QED BY <1>s, <2>1, <2>2
<1>12. ASSUME NEW feed \in Feeds, Refresh(feed) PROVE MomentumInv' /\ Spaced
    BY <1>4, <1>6, <1>12 DEF Refresh
<1>13. CASE TooFewWhales
    BY <1>4, <1>13 DEF TooFewWhales
<1>. HIDE DEF Spaced
<1>14. CASE Poll
    <2>1. PICK feed \in Feeds:
              \/ PollNothing(feed) \/ Refresh(feed)
              \/ \E p \in feed, n \in 0..MaxSignatures: PollCandidate(feed, p, n)
        BY <1>14 DEF Poll
    <2>. QED BY <1>1, <1>2, <1>12, <2>1
<1>. QED BY <1>3, <1>5, <1>7, <1>8, <1>9, <1>10, <1>11, <1>13, <1>14 DEF MomentumNext

\* No mint is signalled, or captured, a second time before its cooldown is over, but for
\* the time a poll may take, whatever the screener returns and however long the
\* confirmation takes (run_market_momentum_route, schedule_market_shadow).
THEOREM MintsStaySpaced == MomentumSpec => MintsAreSpaced
<1>1. MomentumInv /\ [MomentumNext]_momentumVars => MomentumInv'
    BY MomentumStep_Inv
<1>2. MomentumInv /\ [MomentumNext]_momentumVars =>
        [\A k \in {"entry", "shadow"}, m \in Mints:
            since'[k][m] < since[k][m] =>
                since[k][m] >= EntryCool - ConfirmTime - FetchTime]_momentumVars
    <2>1. EntryCool - PollTime = EntryCool - ConfirmTime - FetchTime
        BY MomentumAssumption DEF PollTime
    <2>. QED BY <2>1, MomentumStep_Inv DEF Kinds
<1>. QED BY <1>1, <1>2, MomentumInit_Inv, PTL DEF MomentumSpec, MintsAreSpaced

\* The route's clocks stay within their cooldowns, a poll within its time limits, and the
\* captures that are running within MAX_PENDING_SHADOW_SIGNALS (run_market_momentum_route).
THEOREM MomentumTypesHold == MomentumSpec => []MomentumTypeOK
<1>1. MomentumInv /\ [MomentumNext]_momentumVars => MomentumInv'
    BY MomentumStep_Inv
<1>2. MomentumInv => MomentumTypeOK
    BY DEF MomentumInv, MomentumTypes, MomentumTypeOK, PollState, PollTime, Kinds
<1>. QED BY <1>1, <1>2, MomentumInit_Inv, PTL DEF MomentumSpec
=============================================================================
