----------------------------- MODULE RpcRouter -----------------------------
(***************************************************************************)
(* src/solana_rpc.py: JSON-RPC calls over several free providers.  Every   *)
(* process keeps the availability of a provider in one shared document,    *)
(* under its lock: a circuit for the provider and, for heavy methods, one  *)
(* for each method.  A call goes through the providers in a fixed order,   *)
(* reserves a slot, sends, and records what came of it, however late.      *)
(*                                                                         *)
(* Epochs are kept as the time that is left until them; Tick lets one unit *)
(* pass.  Counters and latencies, which no decision reads, are left out.   *)
(***************************************************************************)
EXTENDS Integers, Sequences, FiniteSets

CONSTANTS
    Calls,          \* calls of solana_rpc_call, of any process
    Providers,      \* configured providers
    Methods,        \* methods called
    HeavyMethods,   \* METHOD_SCOPED_AVAILABILITY_METHODS
    CallMethod,     \* the method of a call
    HeavyCalls,     \* calls of HEAVY_WORKLOADS
    LightOrder,     \* LIGHT_PROVIDER_ORDER
    HeavyOrder,     \* HEAVY_PROVIDER_ORDER
    Unsupported,    \* PROVIDER_UNSUPPORTED_METHODS
    LocalAttempts,  \* RPC_PROVIDER_LOCAL_ATTEMPTS
    AttemptBudget,  \* RPC_OVERALL_ATTEMPT_BUDGET
    FailureThreshold, \* RPC_CIRCUIT_FAILURE_THRESHOLD
    Interval,       \* minimum_interval_seconds
    Cooldown,       \* RPC_CIRCUIT_COOLDOWN_SECONDS
    LeaseTime,      \* RPC_HALF_OPEN_LEASE_SECONDS
    Documents,      \* schema 4 documents a provider may have left behind
    Delays,         \* what helius_backoff_seconds may ask to wait
    MaxInline,      \* RPC_MAX_INLINE_BACKOFF_SECONDS
    MaxLost,        \* bound: calls that vanish
    NoCall

ASSUME RpcAssumption ==
    /\ HeavyMethods \subseteq Methods
    /\ CallMethod \in [Calls -> Methods]
    /\ HeavyCalls \subseteq Calls
    /\ {LightOrder, HeavyOrder} \subseteq Seq(Providers)
    /\ Unsupported \in [Providers -> SUBSET Methods]
    /\ {LocalAttempts, AttemptBudget, FailureThreshold} \subseteq Nat \ {0}
    /\ {Interval, MaxInline, MaxLost} \subseteq Nat
    /\ {Cooldown, LeaseTime} \subseteq Nat \ {0}
    /\ Cooldown >= LeaseTime
    /\ Delays \subseteq Nat
    /\ NoCall \notin Calls

VARIABLES
    wide,       \* the availability of each provider
    scoped,     \* the availability of each heavy method at each provider
    pace,       \* time until a provider may be sent the next request
    held,       \* who holds the lock of a provider's document
    call,       \* the local variables of each call
    blamed,     \* providers to which a failure was counted as their own
    lost        \* how many calls vanished

rpcVars == <<wide, scoped, pace, held, call, blamed, lost>>

-----------------------------------------------------------------------------
(* Availability                                                            *)

Larger(x, y) == IF x > y THEN x ELSE y

Closed == [circuit |-> "CLOSED", fails |-> 0, cooldown |-> 0, lease |-> 0]

Availability == [circuit: {"CLOSED", "OPEN", "HALF_OPEN"},
                 fails: 0..FailureThreshold, cooldown: Nat, lease: Nat]

\* Bug: the lease of a probe is not looked at.
Blocked_IgnoresLease(a) == a.circuit # "HALF_OPEN" /\ a.cooldown > 0

Blocked(a) ==
    IF a.circuit = "HALF_OPEN" THEN a.lease > 0 ELSE a.cooldown > 0

\* Whoever may reserve while a circuit is not closed is its probe.
Probes(a) == a.circuit # "CLOSED"

\* What answers can go wrong with.  Only a rate limit and a transient error of
\* the method itself are the method's own; a terminal error proves that the
\* provider answers.
Failures      == {"rate", "rpc", "http", "terminal"}

\* Bug: a rate limit of a heavy method is counted against the provider.
OwnFailure_CountsAll(m, f) == m \in HeavyMethods /\ f = "rpc"

OwnFailure(m, f) == m \in HeavyMethods /\ f \in {"rate", "rpc"}

\* An availability after failure f of a request that was, or was not, its probe.
\* fails saturates at the threshold, the only value it is compared with.
Failed(a, f, delay, probe) ==
    LET fails == a.fails + 1
        opens == probe \/ fails >= FailureThreshold
        retry == Larger(a.cooldown, delay)
    IN  IF f = "terminal" THEN Closed
        ELSE [circuit  |-> IF opens THEN "OPEN" ELSE "CLOSED",
              fails    |-> IF fails > FailureThreshold THEN FailureThreshold ELSE fails,
              cooldown |-> IF opens THEN Larger(retry, Cooldown) ELSE retry,
              lease    |-> 0]

\* _migrate_provider_state: schema 4 had one availability.  What a heavy method
\* brought about becomes that method's.
Document == [availability: Availability, trigger: Methods, category: Failures]
MovesToMethod(d) ==
    /\ OwnFailure(d.trigger, d.category)
    /\ d.availability.circuit # "CLOSED" \/ d.availability.cooldown > 0
MigratedWide(d)      == IF MovesToMethod(d) THEN Closed ELSE d.availability
MigratedScoped(d, m) ==
    IF MovesToMethod(d) /\ m = d.trigger THEN d.availability ELSE Closed

ASSUME DocumentAssumption == \A p \in Providers: Documents[p] \subseteq Document

-----------------------------------------------------------------------------
(* A call                                                                  *)

Heavy(c) == CallMethod[c] \in HeavyMethods

\* ordered_providers
Order(c) ==
    SelectSeq(IF Heavy(c) \/ c \in HeavyCalls THEN HeavyOrder ELSE LightOrder,
              LAMBDA p: CallMethod[c] \notin Unsupported[p])
Target(c) == Order(c)[call[c].at]

\* What is selected of an order is one: SelectSeq is closed to the provers.
ASSUME OrderAssumption == \A c \in Calls: Order(c) \in Seq(Providers)

\* pc       "next": about to reserve; "pacing": waiting for its slot with the lock
\*          held; "sent": request in flight; "sleep": before a local retry; or how
\*          the call ended
\* at       the provider it is at in its order; local: retries there; used: attempts
\* probe, own   it is the probe of the provider's, of the method's circuit
\* lease    time left of the lease it was given as a probe
\* wait     time left to sleep
\* reached  providers that it sent a request to or that refused it a slot
CallState == [pc: {"next", "pacing", "sent", "sleep", "answered", "exhausted", "vanished"},
              at: Nat \ {0}, local: 0..LocalAttempts - 1, used: 0..AttemptBudget,
              probe: BOOLEAN, own: BOOLEAN, lease: Nat, wait: Nat,
              reached: SUBSET Providers]

NewCall == [pc |-> "next", at |-> 1, local |-> 0, used |-> 0, probe |-> FALSE,
            own |-> FALSE, lease |-> 0, wait |-> 0, reached |-> {}]

Set(c, r) == call' = [call EXCEPT ![c] = r]

\* The loop over providers goes on: from one it is done with to the next.
Onward(r) == [r EXCEPT !.pc = "next", !.at = @ + 1, !.local = 0,
                       !.probe = FALSE, !.own = FALSE, !.lease = 0]

\* Of a call that is over, only what it reached is of interest.
Ended(c, how) == [NewCall EXCEPT !.pc = how, !.reached = call[c].reached]

MayReserve(c) ==
    /\ call[c].pc = "next"
    /\ call[c].at <= Len(Order(c))
    /\ call[c].used < AttemptBudget
    /\ held[Target(c)] = NoCall

Refuses(c) ==
    \/ Blocked(wide[Target(c)])
    \/ Heavy(c) /\ Blocked(scoped[Target(c)][CallMethod[c]])

\* Bug: a provider that has no slot ends the call.
Refused_Raises(c) ==
    /\ MayReserve(c)
    /\ Refuses(c)
    /\ Set(c, Ended(c, "exhausted"))
    /\ UNCHANGED <<wide, scoped, pace, held, blamed, lost>>

\* _reserve_provider_slot_sync returns None.
Refused(c) ==
    /\ MayReserve(c)
    /\ Refuses(c)
    /\ Set(c, Onward([call[c] EXCEPT !.reached = @ \cup {Target(c)}]))
    /\ UNCHANGED <<wide, scoped, pace, held, blamed, lost>>

\* It takes the lock and decides whether the call is a probe ...
Reserve(c) ==
    /\ MayReserve(c)
    /\ ~Refuses(c)
    /\ LET probe == Probes(wide[Target(c)])
           own   == Heavy(c) /\ Probes(scoped[Target(c)][CallMethod[c]])
       IN  Set(c, [call[c] EXCEPT !.pc = "pacing", !.probe = probe, !.own = own,
                                  !.lease = IF probe \/ own THEN LeaseTime ELSE 0])
    /\ held' = [held EXCEPT ![Target(c)] = c]
    /\ UNCHANGED <<wide, scoped, pace, blamed, lost>>

\* ... sleeps out the interval with the lock held, saves and lets go.
Leased(a, c) == [a EXCEPT !.circuit = "HALF_OPEN", !.lease = call[c].lease]
Send(c) ==
    /\ call[c].pc = "pacing"
    /\ LET p == Target(c)
           m == CallMethod[c]
       IN  /\ pace[p] = 0
           /\ pace' = [pace EXCEPT ![p] = Interval]
           /\ wide' = IF call[c].probe THEN [wide EXCEPT ![p] = Leased(@, c)] ELSE wide
           /\ scoped' = IF call[c].own
                        THEN [scoped EXCEPT ![p][m] = Leased(@, c)] ELSE scoped
           /\ held' = [held EXCEPT ![p] = NoCall]
           /\ Set(c, [call[c] EXCEPT !.pc = "sent", !.used = @ + 1,
                                     !.reached = @ \cup {p}])
    /\ UNCHANGED <<blamed, lost>>

\* _record_provider_success_sync closes the circuits, whoever opened them since.
Succeed(c) ==
    /\ call[c].pc = "sent"
    /\ LET p == Target(c)
       IN  /\ held[p] = NoCall
           /\ wide' = [wide EXCEPT ![p] = Closed]
           /\ scoped' = IF Heavy(c)
                        THEN [scoped EXCEPT ![p][CallMethod[c]] = Closed] ELSE scoped
    /\ Set(c, Ended(c, "answered"))
    /\ UNCHANGED <<pace, held, blamed, lost>>

\* Whether the call tries the same provider again after a failure.
RetriesHere(c, f, delay) ==
    /\ f \notin {"rate", "terminal"}
    /\ call[c].local + 1 < LocalAttempts
    /\ AttemptBudget - call[c].used > Len(Order(c)) - call[c].at
    /\ delay <= MaxInline

\* How long _failure_from_error says to wait: what the provider asks for or a
\* jittered power of two.
Waits(f) == IF f = "terminal" THEN {0} ELSE Delays

\* _record_provider_failure_sync, and what solana_rpc_call does next.
Fail(c, f, delay) ==
    /\ call[c].pc = "sent"
    /\ LET p   == Target(c)
           m   == CallMethod[c]
           own == OwnFailure(m, f)
       IN  /\ held[p] = NoCall
           /\ wide' = [wide EXCEPT ![p] =
                         IF own THEN Closed ELSE Failed(@, f, delay, call[c].probe)]
           /\ scoped' = IF own
                        THEN [scoped EXCEPT ![p][m] = Failed(@, f, delay, call[c].own)]
                        ELSE IF call[c].own
                        THEN [scoped EXCEPT ![p][m].lease = 0] ELSE scoped
           /\ blamed' = IF f = "terminal" \/ (m \in HeavyMethods /\ f \in {"rate", "rpc"})
                        THEN blamed ELSE blamed \cup {p}
    /\ Set(c, IF RetriesHere(c, f, delay)
              THEN [call[c] EXCEPT !.pc = "sleep", !.wait = delay, !.local = @ + 1,
                                   !.probe = FALSE, !.own = FALSE, !.lease = 0]
              ELSE Onward(call[c]))
    /\ UNCHANGED <<pace, held, lost>>

Wake(c) ==
    /\ call[c].pc = "sleep" /\ call[c].wait = 0
    /\ Set(c, [call[c] EXCEPT !.pc = "next"])
    /\ UNCHANGED <<wide, scoped, pace, held, blamed, lost>>

\* No provider or no attempt is left: solana_rpc_call raises.
Exhaust(c) ==
    /\ call[c].pc = "next"
    /\ call[c].at > Len(Order(c)) \/ call[c].used >= AttemptBudget
    /\ Set(c, Ended(c, "exhausted"))
    /\ UNCHANGED <<wide, scoped, pace, held, blamed, lost>>

\* The process dies, the caller is cancelled, or the lock of the document times
\* out: nothing is recorded any more, and the operating system drops the lock.
Vanish(c) ==
    /\ lost < MaxLost
    /\ call[c].pc \in {"next", "pacing", "sent", "sleep"}
    /\ Set(c, Ended(c, "vanished"))
    /\ held' = [p \in Providers |-> IF held[p] = c THEN NoCall ELSE held[p]]
    /\ lost' = lost + 1
    /\ UNCHANGED <<wide, scoped, pace, blamed>>

Less(n) == IF n > 0 THEN n - 1 ELSE 0
Aged(a) == [a EXCEPT !.cooldown = Less(@), !.lease = Less(@)]

\* A unit of time passes.  A sleep is at least as long as it says, so a call may
\* be late in waking.
Tick ==
    /\ wide'   = [p \in Providers |-> Aged(wide[p])]
    /\ scoped' = [p \in Providers |-> [m \in HeavyMethods |-> Aged(scoped[p][m])]]
    /\ pace'   = [p \in Providers |-> Less(pace[p])]
    /\ call'   = [c \in Calls |-> [call[c] EXCEPT !.lease = Less(@), !.wait = Less(@)]]
    /\ UNCHANGED <<held, blamed, lost>>

-----------------------------------------------------------------------------

RpcInit ==
    /\ \E d \in [Providers -> UNION {Documents[p] : p \in Providers}]:
          /\ \A p \in Providers: d[p] \in Documents[p]
          /\ wide   = [p \in Providers |-> MigratedWide(d[p])]
          /\ scoped = [p \in Providers |-> [m \in HeavyMethods |-> MigratedScoped(d[p], m)]]
          /\ blamed = {p \in Providers : MigratedWide(d[p]) # Closed}
    /\ pace   = [p \in Providers |-> 0]
    /\ held   = [p \in Providers |-> NoCall]
    /\ call   = [c \in Calls |-> NewCall]
    /\ lost   = 0

CallStep(c) ==
    \/ Refused(c) \/ Reserve(c) \/ Send(c) \/ Succeed(c) \/ Wake(c) \/ Exhaust(c)
    \/ \E f \in Failures: \E delay \in Waits(f): Fail(c, f, delay)

RpcNext == Tick \/ \E c \in Calls: CallStep(c) \/ Vanish(c)

RpcSpec == RpcInit /\ [][RpcNext]_rpcVars

-----------------------------------------------------------------------------
(* Properties                                                              *)

RpcTypeOK ==
    /\ wide \in [Providers -> Availability]
    /\ scoped \in [Providers -> [HeavyMethods -> Availability]]
    /\ pace \in [Providers -> 0..Interval]
    /\ held \in [Providers -> Calls \cup {NoCall}]
    /\ call \in [Calls -> CallState]
    /\ blamed \subseteq Providers
    /\ lost \in 0..MaxLost

\* A provider that is recovering is probed by one request at a time: of two probes
\* in flight at one provider (_activate_half_open_probe), one has outlived the
\* lease it was given.  Late answers of requests sent before the circuit opened
\* close it, reopen it and clear its lease in between.
ProbesApart ==
    \A c, d \in Calls:
        /\ c # d
        /\ call[c].pc = "sent" /\ call[c].probe /\ call[c].lease > 0
        /\ call[d].pc = "sent" /\ call[d].probe /\ call[d].lease > 0
        => Target(c) # Target(d)

\* A call that raises has sent a request to every provider in its order or was
\* refused a slot by it (solana_rpc_call), as long as the budget has an attempt for
\* each: what earlier providers cost never takes the attempt of the public one.
EveryProviderReached ==
    \A c \in Calls:
        call[c].pc = "exhausted" /\ AttemptBudget >= Len(Order(c))
        => \A i \in 1..Len(Order(c)): Order(c)[i] \in call[c].reached

\* Rate limits and transient errors of heavy methods, and what schema 4 documents kept
\* of them, are no reason to refuse a provider to another method
\* (_failure_uses_method_availability): while no failure was counted as the provider's
\* own, its circuit is as good as new.  Its own are the failures of light methods and
\* the HTTP errors and timeouts of any.  Of a provider that has had one nothing is
\* said: the answers to heavy methods then close or reset its circuit too.
UnblamedIsAvailable ==
    \A p \in Providers \ blamed: wide[p] = Closed
=============================================================================
