------------------------------- MODULE Distro --------------------------------
(***************************************************************************)
(* The x/distro module: one account may mint, within the halving schedule, *)
(* to one receiving account; governance may replace the parameters.        *)
(*                                                                         *)
(* params = [minter, receiver, month, dayOfMonth, months, maxSupply].      *)
(* The total supply belongs to x/bank, which is not part of the            *)
(* repository: others may burn from it, and x/mint, which the application  *)
(* runs in BeginBlock with its default inflation and gives the same denom, *)
(* adds to it.  x/distro reads the total and cannot tell the two apart.    *)
(***************************************************************************)
EXTENDS HalvingSchedule

CONSTANTS Account,     \* accounts, the governance account among them
          Authority,   \* the governance account
          Blocked,     \* accounts the bank sends nothing to
          ParamsSet,   \* parameters that governance may propose
          InitSupply,  \* supplies at genesis
          FeeCollector, \* the module account that x/mint provides for
          MaxDay,      \* bound: the last block day
          MaxMint,     \* bound: the largest amount of a message
          MaxProvided  \* bound: the most that x/mint provides in all

VARIABLES params,
          supply,    \* x/bank: total supply of the denom
          balance,   \* x/bank: the balances, which make up the supply
          provided,  \* what x/mint has added to the supply so far
          day        \* block day

vars == <<params, supply, balance, provided, day>>

\* Params.Validate: what is not a positive number or a date is refused.
Validate(p) ==
    /\ p.minter \in Account /\ p.receiver \in Account
    /\ p.maxSupply > 0
    /\ p.months > 0

\* The block days lie within the calendar and the periods that CurrentPeriod
\* tries: 1000 periods of a month and more.
ASSUME DistroAssumption ==
    /\ IsFiniteSet(Account) /\ Authority \in Account
    /\ FeeCollector \in Account
    /\ InitSupply \subseteq Nat /\ MaxDay \in Nat /\ MaxMint \in Nat
    /\ MaxPeriod > 0
    /\ \A p \in ParamsSet :
          /\ p.month \in Nat /\ p.dayOfMonth \in Nat
          /\ p.months \in Int /\ p.maxSupply \in Int
          /\ Validate(p) => /\ p.month + MaxPeriod * p.months <= MaxMonth + 1
                            /\ MaxDay <= PeriodEnd(p, MaxPeriod)

\* A faulty limit check that looks at the amount and not at the new supply.
ValidateMintingLimits_AmountOnly(p, amount) ==
    /\ ~BeforeStart(p, day)
    /\ ~Panics(p, day)
    /\ amount <= TotalDistributableAt(p, day)

ValidateMintingLimits(p, amount) ==
    /\ ~BeforeStart(p, day)
    /\ ~Panics(p, day)
    /\ supply + amount <= TotalDistributableAt(p, day)

\* MintCoins into the module account, then out of it to the receiver.
Mint(minter, amount) ==
    /\ amount > 0
    /\ minter = params.minter
    /\ supply + amount <= params.maxSupply
    /\ ValidateMintingLimits(params, amount)
    /\ params.receiver \notin Blocked
    /\ supply' = supply + amount
    /\ balance' = [balance EXCEPT ![params.receiver] = @ + amount]
    /\ UNCHANGED <<params, provided, day>>

\* A faulty UpdateParams that stores what it is given.
UpdateParams_Unchecked(authority, p) ==
    /\ authority = Authority
    /\ params' = p
    /\ UNCHANGED <<supply, balance, provided, day>>

\* The supply is not looked at: it may already be above a new limit.
UpdateParams(authority, p) ==
    /\ authority = Authority
    /\ Validate(p)
    /\ params' = p
    /\ UNCHANGED <<supply, balance, provided, day>>

\* Slashes and forfeited deposits burn tokens.
Burn(account, amount) ==
    /\ amount <= balance[account]
    /\ supply' = supply - amount
    /\ balance' = [balance EXCEPT ![account] = @ - amount]
    /\ UNCHANGED <<params, provided, day>>

\* x/mint in BeginBlock: the block's provision, minted and sent to the fee
\* collector.  No limit of x/distro is asked.
MintProvision(amount) ==
    /\ provided + amount <= MaxProvided
    /\ supply' = supply + amount
    /\ balance' = [balance EXCEPT ![FeeCollector] = @ + amount]
    /\ provided' = provided + amount
    /\ UNCHANGED <<params, day>>

NextDay ==
    /\ day < MaxDay
    /\ day' = day + 1
    /\ UNCHANGED <<params, supply, balance, provided>>

InitGenesis ==
    /\ params \in {p \in ParamsSet : Validate(p)}
    /\ supply \in InitSupply

Init ==
    /\ InitGenesis
    /\ balance = [a \in Account |-> IF a = Authority THEN supply ELSE 0]
    /\ provided = 0
    /\ day = 0

Next ==
    \/ \E a \in Account, n \in 0 .. MaxMint : Mint(a, n)
    \/ \E a \in Account, p \in ParamsSet : UpdateParams(a, p)
    \/ \E a \in Account, n \in 1 .. MaxMint : Burn(a, n)
    \/ \E n \in 1 .. MaxMint : MintProvision(n)
    \/ NextDay

Spec == Init /\ [][Next]_vars

-----------------------------------------------------------------------------
(* Properties                                                               *)

\* The parameters in force are valid ones, and no amount is negative.
TypeOK ==
    /\ params \in ParamsSet /\ Validate(params)
    /\ supply \in Nat
    /\ balance \in [Account -> Nat]
    /\ provided \in Nat
    /\ day \in 0 .. MaxDay

\* What may be in circulation on a day: once the divisor has become zero, what
\* had been released on the last day before.
Limit(p, date) ==
    LET answered == {d \in StartDate(p) .. date : ~Panics(p, d)}
    IN  IF answered = {} THEN 0
        ELSE Min({p.maxSupply, TotalDistributableAt(p, Max(answered))})

\* The mint handler keeps to the schedule among everything else that moves the
\* supply.  When no more circulates beyond the limit of the day than x/mint has
\* provided, it stays so while the parameters stay: the limit of
\* TotalDistributableAt never falls from one day to the next, also where a
\* period ends and the rounded daily shares give way to a whole allocation, and
\* nothing is released by the periods whose divisor 1 << period is zero.  And a
\* supply that is above the limit, through x/mint, genesis or new parameters,
\* grows by what x/mint provides and by nothing else.
WithinSchedule ==
    [][/\ supply <= Limit(params, day) + provided
          => supply' <= Limit(params, day') + provided' \/ params' # params
       /\ supply' > Limit(params', day')
          => supply' - supply <= provided' - provided]_vars

\* From its start date on, every day lies in exactly one period, also when
\* the start day is one that some months do not have.
OnePeriodPerDay ==
    ~BeforeStart(params, day)
    => Cardinality({p \in 1 .. MaxPeriod : InPeriod(params, p, day)}) = 1

\* On the last day of a period exactly the allocations of the periods so far
\* have been released, and what is missing to the maximal supply is the
\* allocation once more and at most one unit per period.
PeriodsRelease ==
    \A p \in 1 .. MaxPeriod :
        day = PeriodEnd(params, p) /\ ~Panics(params, day) =>
            LET released == TotalDistributableAt(params, day)
                left     == params.maxSupply - released
            IN  /\ released = SumFunction(
                                 [q \in 1 .. p |-> params.maxSupply \div 2^q])
                /\ left \in params.maxSupply \div 2^p .. (params.maxSupply \div 2^p) + p
==============================================================================
