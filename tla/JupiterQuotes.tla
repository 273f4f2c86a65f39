--------------------------- MODULE JupiterQuotes ---------------------------
(***************************************************************************)
(* src/executor.py, jupiter_quote and its rate limiter.  All processes ask *)
(* one slot after another from the document jupiter_rate_limit.json: who   *)
(* holds its lock reads it, sleeps until the slot is due, stamps it and    *)
(* lets go.  The request itself follows later, when the event loop of the  *)
(* process comes back to it, and without another look at the document.     *)
(* A 429 or a 5xx publishes in it until when everybody waits.              *)
(*                                                                         *)
(* Epochs are kept as the time left until them, as in RpcRouter.           *)
(***************************************************************************)
EXTENDS Integers

CONSTANTS
    Quotes,         \* quotes under way at a time, of any process
    SlotInterval,   \* _QUOTE_INTERVAL_SECONDS
    Resets,         \* waits that a 429 or 5xx may come to
    MaxReset,       \* _JUPITER_MAX_RESET_WAIT_SECONDS
    QuoteAttempts,  \* _JUPITER_MAX_QUOTE_ATTEMPTS
    NoQuote

ASSUME QuoteAssumption ==
    /\ SlotInterval \in Nat \ {0}
    /\ Resets \subseteq Nat
    /\ {MaxReset, QuoteAttempts} \subseteq Nat \ {0}
    /\ NoQuote \notin Quotes

VARIABLES
    slots,      \* the document: gap, time left until last_request_at + interval,
                \* and notBefore
    limiter,    \* who holds its lock
    quote,      \* the local variables of each quote
    hush        \* time left of what anyone has promised not to ask before

quoteVars == <<slots, limiter, quote, hush>>

-----------------------------------------------------------------------------

Later(x, y) == IF x > y THEN x ELSE y
Down(n)     == IF n > 0 THEN n - 1 ELSE 0

\* pc    "idle"; "ask": about to lock; "due": asleep with the lock; "granted": the
\*       slot is its own, the request not yet out; "sent"; "defer": about to publish a
\*       reset; "rest": asleep before another attempt
\* try   attempts made before; wait: time left to sleep; reset: time left until
\*       the epoch to publish; delay: what to sleep after that
QuoteState == [pc: {"idle", "ask", "due", "granted", "sent", "defer", "rest"},
               try: 0..QuoteAttempts - 1, wait: Nat, reset: Nat, delay: Nat]
NoRequest  == [pc |-> "idle", try |-> 0, wait |-> 0, reset |-> 0, delay |-> 0]

QuoteGoes(c, r) == quote' = [quote EXCEPT ![c] = r]

StartQuote(c) ==
    /\ quote[c].pc = "idle"
    /\ QuoteGoes(c, [NoRequest EXCEPT !.pc = "ask"])
    /\ UNCHANGED <<slots, limiter, hush>>

\* _wait_for_jupiter_slot_sync locks, reads and goes to sleep ...
TakeSlot(c) ==
    /\ quote[c].pc = "ask" /\ limiter = NoQuote
    /\ limiter' = c
    /\ QuoteGoes(c, [quote[c] EXCEPT !.pc = "due",
                                     !.wait = Later(slots.gap, slots.notBefore)])
    /\ UNCHANGED <<slots, hush>>

\* ... stamps the slot and lets go.
GrantSlot(c) ==
    /\ quote[c].pc = "due" /\ quote[c].wait = 0
    /\ slots' = [slots EXCEPT !.gap = SlotInterval]
    /\ limiter' = NoQuote
    /\ hush' = Later(hush, SlotInterval)
    /\ QuoteGoes(c, [quote[c] EXCEPT !.pc = "granted"])

\* Back from the thread, jupiter_quote sends the request.
SendRequest(c) ==
    /\ quote[c].pc = "granted"
    /\ QuoteGoes(c, [quote[c] EXCEPT !.pc = "sent"])
    /\ UNCHANGED <<slots, limiter, hush>>

\* The quote, no route (400, an empty plan), or another error of the request:
\* either way nothing is tried again.
QuoteAnswered(c) ==
    /\ quote[c].pc = "sent"
    /\ QuoteGoes(c, NoRequest)
    /\ UNCHANGED <<slots, limiter, hush>>

\* Bug: a retry does not count.
NextTry_Same(n) == n

\* The attempt after one that failed, or the end.
NextTry(n) == n + 1
RestsOrEnds(q, delay) ==
    IF q.try + 1 < QuoteAttempts
    THEN [NoRequest EXCEPT !.pc = "rest", !.try = q.try, !.wait = delay]
    ELSE NoRequest

\* _jupiter_backoff_seconds: what the server asks for, but not for ever, or 2^try.
Backoff(q, d) == IF d > 0 THEN IF d < MaxReset THEN d ELSE MaxReset ELSE 2 ^ q.try

\* A 429 or a 5xx.  The epoch is fixed now and published once the lock is free.
TurnedAway(c, d) ==
    /\ quote[c].pc = "sent"
    /\ QuoteGoes(c, [quote[c] EXCEPT !.pc = "defer", !.reset = Backoff(quote[c], d),
                                     !.delay = Backoff(quote[c], d)])
    /\ UNCHANGED <<slots, limiter, hush>>

\* Bug: the last one to publish wins.
Deferred_Last(doc, reset) == [doc EXCEPT !.notBefore = reset]

\* _defer_jupiter_until_sync
Deferred(doc, reset) == [doc EXCEPT !.notBefore = Later(@, reset)]

PublishReset(c) ==
    /\ quote[c].pc = "defer" /\ limiter = NoQuote
    /\ slots' = Deferred(slots, quote[c].reset)
    /\ hush' = Later(hush, quote[c].reset)
    /\ QuoteGoes(c, RestsOrEnds(quote[c], quote[c].delay))
    /\ UNCHANGED limiter

\* A transport error of the request, or StateLockTimeout (a TimeoutError) while
\* another one sits on the lock.
TransportFails(c) ==
    /\ \/ quote[c].pc = "sent"
       \/ quote[c].pc \in {"ask", "defer"} /\ limiter # NoQuote
    /\ QuoteGoes(c, RestsOrEnds(quote[c], 2 ^ quote[c].try))
    /\ UNCHANGED <<slots, limiter, hush>>

QuoteAgain(c) ==
    /\ quote[c].pc = "rest" /\ quote[c].wait = 0
    /\ QuoteGoes(c, [quote[c] EXCEPT !.pc = "ask", !.try = NextTry(@)])
    /\ UNCHANGED <<slots, limiter, hush>>

\* The process dies or the caller gives up; a thread asleep with the lock is only
\* stopped by the former.  The operating system drops the lock.
QuoteDies(c) ==
    /\ quote[c].pc # "idle"
    /\ QuoteGoes(c, NoRequest)
    /\ limiter' = IF limiter = c THEN NoQuote ELSE limiter
    /\ UNCHANGED <<slots, hush>>

\* A unit of time passes.  A thread may oversleep.
QuoteTick ==
    /\ slots' = [gap |-> Down(slots.gap), notBefore |-> Down(slots.notBefore)]
    /\ hush'  = Down(hush)
    /\ quote' = [c \in Quotes |-> [quote[c] EXCEPT !.wait = Down(@), !.reset = Down(@)]]
    /\ UNCHANGED limiter

-----------------------------------------------------------------------------

QuoteInit ==
    /\ slots = [gap |-> 0, notBefore |-> 0]
    /\ limiter = NoQuote
    /\ quote = [c \in Quotes |-> NoRequest]
    /\ hush = 0

\* What a quote does once it has begun.
QuoteStep(c) ==
    \/ TakeSlot(c) \/ GrantSlot(c) \/ SendRequest(c) \/ QuoteAnswered(c)
    \/ PublishReset(c) \/ TransportFails(c) \/ QuoteAgain(c)
    \/ \E d \in Resets: TurnedAway(c, d)

QuoteNext == QuoteTick \/ \E c \in Quotes: StartQuote(c) \/ QuoteStep(c) \/ QuoteDies(c)

\* Threads are scheduled, requests time out (30 s) and so does the wait for the
\* lock (180 s): a quote that can take a step takes one.
QuoteFairness == WF_quoteVars(QuoteTick) /\ \A c \in Quotes: WF_quoteVars(QuoteStep(c))

QuoteSpec == QuoteInit /\ [][QuoteNext]_quoteVars /\ QuoteFairness

-----------------------------------------------------------------------------
(* Properties                                                              *)

QuoteTypeOK ==
    /\ slots \in [gap: 0..SlotInterval, notBefore: Nat]
    /\ limiter \in Quotes \cup {NoQuote}
    /\ quote \in [Quotes -> QuoteState]
    /\ hush \in Nat

\* No slot is granted to any process before the interval since the last one is over and
\* before every reset is that was published until then, the longest of several included
\* (_wait_for_jupiter_slot_sync, _defer_jupiter_until_sync).  It is the slots that are
\* kept apart: a process that has its slot sends its request later, without the lock, and
\* also after a reset that was published meanwhile.
SlotsAreSpaced ==
    [][\A c \in Quotes: quote[c].pc = "due" /\ quote'[c].pc = "granted" => hush = 0]_quoteVars

\* A quote ends, however often it is turned away and however long others sit on the
\* lock (_JUPITER_MAX_QUOTE_ATTEMPTS, the lock's timeout).
EveryQuoteEnds == \A c \in Quotes: quote[c].pc # "idle" ~> quote[c].pc = "idle"
=============================================================================
