---------------------------- MODULE AgentControl ----------------------------
(***************************************************************************)
(* What holds the agents' runs in check: signed task contexts, each good   *)
(* for one run and for a short time, the store of used nonces with its     *)
(* janitor, and the cost monitor with its caps per task and per tenant and *)
(* day, which is asked before a run and told after it.                     *)
(***************************************************************************)
EXTENDS Integers, FiniteSetsExt

CONSTANTS
    Contexts,       \* signed contexts, one task each
    TenantOf,       \* the tenant of a TENANT context; Nobodys of a GLOBAL one
    Nobodys,        \* no tenant
    Runs,           \* bound: runs at the same time
    Second,         \* clock ticks in a second
    Ttl,            \* seconds a context lives (300)
    SupportCost, ResearchCost,      \* cost of a run, in some small unit
    TaskCap, TenantCap,             \* MaxTaskCostUSD, MaxTenantDailyUSD
    MaxTick, MaxDay                 \* bounds of the clock

ASSUME ControlAssumption ==
    /\ IsFiniteSet(Runs)
    /\ {Second, Ttl, SupportCost, ResearchCost, TaskCap, TenantCap} \subseteq Nat \ {0}
    /\ MaxTick \in Nat /\ MaxDay \in Nat

VARIABLES
    tick,       \* the clock
    today,      \* the day, in UTC
    context,    \* the second each context expires; Unsigned before it is made
    nonce,      \* the tick its nonce is kept until; Unsigned if there is none
    accepted,   \* history: when each context was accepted
    run,        \* where each run is
    taskCost, tenantDaily,      \* the monitor's counters
    halted      \* isCircuitOpen

controlVars == <<tick, today, context, nonce, accepted, run, taskCost, tenantDaily, halted>>
costVars == <<run, taskCost, tenantDaily>>

Unsigned == -1
Off == [pc |-> "idle"]
Billed == {TenantOf[x] : x \in Contexts} \ {Nobodys}
IsGlobal(x) == TenantOf[x] = Nobodys
CostOf(x) == IF IsGlobal(x) THEN ResearchCost ELSE SupportCost

ControlInit ==
    /\ tick = 0 /\ today = 0
    /\ context = [x \in Contexts |-> Unsigned]
    /\ nonce = [x \in Contexts |-> Unsigned]
    /\ accepted = [x \in Contexts |-> {}]
    /\ run = [r \in Runs |-> Off]
    /\ taskCost = [x \in Contexts |-> 0]
    /\ tenantDaily = [o \in Billed |-> [d \in 0..MaxDay |-> 0]]
    /\ halted = FALSE

----------------------------------------------------------------------------
(* Expiry is kept in whole seconds, the nonces' in full precision.         *)
CreateSignedContext(x) ==
    /\ context[x] = Unsigned
    /\ context' = [context EXCEPT ![x] = tick \div Second + Ttl]
    /\ UNCHANGED <<tick, today, nonce, accepted, costVars, halted>>

(* The nonce was used and is still kept.                                   *)
Replayed(x) == nonce[x] # Unsigned /\ tick < nonce[x]

(* Plausible bug: seconds are taken for ticks of the clock.                *)
MarkBriefly(x) == nonce' = [nonce EXCEPT ![x] = tick + Ttl]

(* VerifyAndMarkNonce.                                                     *)
MarkNonce(x) == nonce' = [nonce EXCEPT ![x] = tick + Ttl * Second]

VerifyAndParseContext(x) ==
    /\ context[x] # Unsigned /\ tick \div Second <= context[x]
    /\ ~Replayed(x) /\ MarkNonce(x)
    /\ accepted' = [accepted EXCEPT ![x] = @ \cup {tick}]
    /\ UNCHANGED <<tick, today, context, costVars, halted>>

(* The janitor removes what it need not keep; Redis does so by itself.     *)
Janitor ==
    /\ \E x \in Contexts : nonce[x] # Unsigned /\ tick > nonce[x]
    /\ nonce' = [x \in Contexts |-> IF tick > nonce[x] THEN Unsigned ELSE nonce[x]]
    /\ UNCHANGED <<tick, today, context, accepted, costVars, halted>>

----------------------------------------------------------------------------
(* Plausible bug: a task or tenant may go on at its cap.                   *)
Over(cost, cap) == cost > cap

Reached(cost, cap) == cost >= cap

(* CheckLimit: a GLOBAL run has no tenant to ask about.                    *)
CheckLimit(x) ==
    /\ ~halted
    /\ ~Reached(taskCost[x], TaskCap)
    /\ ~IsGlobal(x) => ~Reached(tenantDaily[TenantOf[x]][today], TenantCap)

(* A run begins with the check and then searches or fetches, which may     *)
(* fail.                                                                   *)
StartRun(r, x) ==
    /\ run[r] = Off /\ accepted[x] # {} /\ CheckLimit(x)
    /\ run' = [run EXCEPT ![r] = [pc |-> "run", context |-> x]]
    /\ UNCHANGED <<tick, today, context, nonce, accepted, taskCost, tenantDaily, halted>>

RunSupportAssistant(r, x) == ~IsGlobal(x) /\ StartRun(r, x)
RunGlobalResearch(r, x) == IsGlobal(x) /\ StartRun(r, x)

FailRun(r) ==
    /\ run[r] # Off /\ run' = [run EXCEPT ![r] = Off]
    /\ UNCHANGED <<tick, today, context, nonce, accepted, taskCost, tenantDaily, halted>>

(* TrackUsage, whose answer is ignored.  It counts nothing while the       *)
(* breaker is open, and nothing for the tenant once the task is over.      *)
TrackUsage(x) ==
    IF halted THEN UNCHANGED <<taskCost, tenantDaily>>
    ELSE LET cost == taskCost[x] + CostOf(x)
         IN  /\ taskCost' = [taskCost EXCEPT ![x] = cost]
             /\ tenantDaily' =
                   IF IsGlobal(x) \/ cost > TaskCap THEN tenantDaily
                   ELSE [tenantDaily EXCEPT ![TenantOf[x]][today] = @ + CostOf(x)]

FinishRun(r) ==
    /\ run[r] # Off
    /\ TrackUsage(run[r].context)
    /\ run' = [run EXCEPT ![r] = Off]
    /\ UNCHANGED <<tick, today, context, nonce, accepted, halted>>

SetGlobalCircuitBreaker ==
    /\ halted' = ~halted
    /\ UNCHANGED <<tick, today, context, nonce, accepted, costVars>>

Clock ==
    /\ tick < MaxTick /\ tick' = tick + 1
    /\ UNCHANGED <<today, context, nonce, accepted, costVars, halted>>

Midnight ==
    /\ today < MaxDay /\ today' = today + 1
    /\ UNCHANGED <<tick, context, nonce, accepted, costVars, halted>>

ControlNext ==
    \/ \E x \in Contexts : CreateSignedContext(x) \/ VerifyAndParseContext(x)
    \/ Janitor
    \/ \E r \in Runs, x \in Contexts : RunSupportAssistant(r, x) \/ RunGlobalResearch(r, x)
    \/ \E r \in Runs : FailRun(r) \/ FinishRun(r)
    \/ SetGlobalCircuitBreaker \/ Clock \/ Midnight

ControlSpec == ControlInit /\ [][ControlNext]_controlVars

----------------------------------------------------------------------------
(* The state is well typed, and a context is never accepted unsigned.      *)
ControlTypeOK ==
    /\ tick \in 0..MaxTick /\ today \in 0..MaxDay
    /\ context \in [Contexts -> Nat \cup {Unsigned}]
    /\ nonce \in [Contexts -> Nat \cup {Unsigned}]
    /\ accepted \in [Contexts -> SUBSET (0..MaxTick)]
    /\ run \in [Runs -> {Off} \cup [pc : {"run"}, context : Contexts]]
    /\ taskCost \in [Contexts -> Nat]
    /\ tenantDaily \in [Billed -> [0..MaxDay -> Nat]]
    /\ halted \in BOOLEAN
    /\ \A x \in Contexts : accepted[x] # {} => context[x] # Unsigned

(* A context is accepted a second time only when a whole life of a context *)
(* has passed since the first: janitor, clock and store never forget a     *)
(* nonce early.  (It can happen: seconds are cut off from the expiry of    *)
(* the context and not from that of the nonce, see CreateSignedContext.)   *)
AcceptedALifeApart ==
    \A x \in Contexts : \A s, t \in accepted[x] : s < t => t - s >= Ttl * Second

(* The caps are exceeded by what runs at the same time can cost, and by no *)
(* more: a check before and a count after the run let every run in that    *)
(* starts before another is counted (CheckLimit, TrackUsage).              *)
OvershootBounded ==
    /\ \A x \in Contexts : taskCost[x] < TaskCap + Cardinality(Runs) * CostOf(x)
    /\ \A o \in Billed, d \in 0..MaxDay :
          tenantDaily[o][d] < TenantCap + Cardinality(Runs) * SupportCost
=============================================================================
