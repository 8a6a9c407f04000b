---------------------------- MODULE LockupKeeper -----------------------------
(***************************************************************************)
(* What x/lockup computes from the staking and bank stores, and the two    *)
(* places where it can veto an operation of those modules: the staking     *)
(* hooks and the bank send restriction.                                    *)
(*                                                                         *)
(* x/staking and x/bank are not part of the repository.  Their operations  *)
(* are modelled from the calls the repository makes and from the order in  *)
(* which its hooks say they run: Unbond fires its hook while the validator *)
(* still holds the old tokens and shares, Delegate fires it after both     *)
(* have been raised.                                                       *)
(*                                                                         *)
(* chain  = [bank, del, val, unbonding, receiving]: balances, delegation   *)
(*          shares per account and validator, tokens and shares of each    *)
(*          validator, tokens on their way out, and the (account,          *)
(*          validator) pairs that have received a redelegation.            *)
(* lockup = [locks, queue]: the module's own store, see LockStore.         *)
(* ctx    = [day, marked]: the block day and the (account, source          *)
(*          validator) pairs WithRedelegating has put into the context.    *)
(***************************************************************************)
EXTENDS LockStore

CONSTANTS Addr,      \* accounts
          Val,       \* validators
          Precision  \* shares per token at rate 1 (10^18 in LegacyDec)

ASSUME PrecisionAssumption == Precision \in Nat \ {0}

-----------------------------------------------------------------------------
(* Amounts: helpers.go                                                      *)

CeilDiv(a, b) == (a + b - 1) \div b

\* Half-even rounding of a / b, as LegacyDec rounds.
RoundDiv(a, b) ==
    LET q == a \div b
        r == 2 * (a % b)
    IN  IF r > b \/ (r = b /\ q % 2 = 1) THEN q + 1 ELSE q

\* validator.TokensFromShares, in units of 1/Precision: LegacyDec.Quo divides
\* with twice the digits, drops the rest and rounds to Precision.
TokensFromShares(chain, val, shares) ==
    RoundDiv((shares * chain.val[val].tokens * Precision * Precision)
                \div chain.val[val].shares,
             Precision)

\* validator.TokensFromShares(shares).Ceil().TruncateInt(), 0 if not found.
GetDelegationAmount(chain, addr, val) ==
    IF chain.del[addr][val] = 0 THEN 0
    ELSE CeilDiv(TokensFromShares(chain, val, chain.del[addr][val]), Precision)

\* One pass over the delegations; the scan that repeats with 100 or more of
\* them is the subject of DelegationScan.
GetTotalDelegatedAmount(chain, addr) ==
    SumFunction([val \in Val |-> GetDelegationAmount(chain, addr, val)])

-----------------------------------------------------------------------------
(* Staking hooks: hooks.go                                                  *)

\* checkLockupInvariantExcluding; excluded holds at most one validator.
CheckLockupInvariantExcluding(lockup, chain, ctx, addr, excluded) ==
    LET locked == LockedAmount(lockup.locks[addr], ctx.day)
        minus  == SumFunctionOnSet(
                      [val \in Val |-> GetDelegationAmount(chain, addr, val)],
                      excluded)
    IN  locked = 0 \/ GetTotalDelegatedAmount(chain, addr) - minus >= locked

AfterDelegationModified(lockup, chain, ctx, addr, val) ==
    \/ <<addr, val>> \in ctx.marked
    \/ CheckLockupInvariantExcluding(lockup, chain, ctx, addr, {})

\* A faulty hook that still counts the delegation being removed.
BeforeDelegationRemoved_NoExclude(lockup, chain, ctx, addr, val) ==
    \/ <<addr, val>> \in ctx.marked
    \/ CheckLockupInvariantExcluding(lockup, chain, ctx, addr, {})

BeforeDelegationRemoved(lockup, chain, ctx, addr, val) ==
    \/ <<addr, val>> \in ctx.marked
    \/ CheckLockupInvariantExcluding(lockup, chain, ctx, addr, {val})

-----------------------------------------------------------------------------
(* x/staking (external)                                                     *)

\* Shares bought by amount tokens, and shares that amount tokens stand for.
SharesFromTokens(chain, val, amount) ==
    IF chain.val[val].shares = 0 THEN amount * Precision
    ELSE (amount * chain.val[val].shares) \div chain.val[val].tokens

AfterDelegate(chain, addr, val, amount, fromBank) ==
    LET issued == SharesFromTokens(chain, val, amount)
    IN  [chain EXCEPT
            !.bank[addr]     = IF fromBank THEN @ - amount ELSE @,
            !.del[addr][val] = @ + issued,
            !.val[val]       = [tokens |-> @.tokens + amount,
                                shares |-> @.shares + issued]]

CanDelegate(lockup, chain, ctx, addr, val, amount, fromBank) ==
    /\ chain.val[val].shares > 0 => chain.val[val].tokens > 0
    /\ fromBank => chain.bank[addr] >= amount
    /\ AfterDelegationModified(
            lockup, AfterDelegate(chain, addr, val, amount, fromBank),
            ctx, addr, val)

\* RemoveDelShares: the last shares take all tokens, others what they are worth
\* rounded down.
UnbondedTokens(chain, val, shares) ==
    IF shares = chain.val[val].shares THEN chain.val[val].tokens
    ELSE TokensFromShares(chain, val, shares) \div Precision

CanUnbond(lockup, chain, ctx, addr, val, amount) ==
    LET shares == SharesFromTokens(chain, val, amount)
    IN  /\ chain.del[addr][val] > 0
        /\ chain.val[val].tokens > 0
        /\ shares <= chain.del[addr][val]
        /\ IF shares = chain.del[addr][val]
           THEN BeforeDelegationRemoved(lockup, chain, ctx, addr, val)
           ELSE AfterDelegationModified(
                    lockup, [chain EXCEPT !.del[addr][val] = @ - shares],
                    ctx, addr, val)

AfterUnbond(chain, addr, val, amount) ==
    LET shares == SharesFromTokens(chain, val, amount)
    IN  [chain EXCEPT
            !.del[addr][val] = @ - shares,
            !.val[val] = [tokens |-> @.tokens - UnbondedTokens(chain, val, shares),
                          shares |-> @.shares - shares]]

-----------------------------------------------------------------------------
(* Bank sends: send_restriction.go and the external SendCoins               *)

\* A faulty restriction that treats the whole balance as free.
SendRestrictionFn_Off(lockup, chain, ctx, from, amount) == TRUE

SendRestrictionFn(lockup, chain, ctx, from, amount) ==
    LET locked == LockedAmount(lockup.locks[from], ctx.day)
        lockedAboveDelegated == locked - GetTotalDelegatedAmount(chain, from)
    IN  \/ amount = 0
        \/ locked = 0
        \/ lockedAboveDelegated <= 0
        \/ chain.bank[from] - lockedAboveDelegated >= amount

CanSendCoins(lockup, chain, ctx, from, amount) ==
    /\ SendRestrictionFn(lockup, chain, ctx, from, amount)
    /\ chain.bank[from] >= amount

AfterSendCoins(chain, from, to, amount) ==
    [chain EXCEPT !.bank[from] = @ - amount, !.bank[to] = @ + amount]
==============================================================================
