----------------------------- MODULE ZeroHeight -----------------------------
(***************************************************************************)
(* ExportAppStateAndValidators with forZeroHeight: the state of a halted   *)
(* chain is rewritten so that a new chain can start from it at height 0.   *)
(* prepForZeroHeightGenesis is a sequence of passes over the validators,   *)
(* the delegations and the staking entries; each is an action here.        *)
(*                                                                         *)
(* x/distribution (external) counts a validator's rewards in periods.  A   *)
(* delegation starts at a period, and the record of that period must stay  *)
(* for its rewards to be computed: a record counts the references to it    *)
(* and is deleted with the last one.                                       *)
(***************************************************************************)
EXTENDS Integers, FiniteSets, Sequences, TLC, SequencesExt

CONSTANTS Val,          \* validators
          Delegations,  \* a sequence of [del, val], as GetAllDelegations returns
          AllowLists,   \* the jailAllowedAddrs arguments tried
          Height        \* the height of the halted chain

VARIABLES pc,          \* the next pass, "done", "failed" with an error, or
                       \* "exited" where log.Fatal ends the process
          allowed,     \* jailAllowedAddrs
          dist,        \* the state of x/distribution
          staking,     \* creation heights, jailed validators, bond heights
          signing      \* validator -> start height of its signing info

vars == <<pc, allowed, dist, staking, signing>>

\* sdk.ValAddress(val.GetOperator()): the operator is bech32 text, and the
\* conversion takes the bytes of the text; no validator has that address.
TextBytes(v) == <<"text of", v>>

-----------------------------------------------------------------------------
(* x/distribution *)

\* A record loses a reference, and goes with the last.
Release(refs, v, p) ==
    IF <<v, p>> \notin DOMAIN refs THEN refs
    ELSE IF refs[<<v, p>>] > 1 THEN [refs EXCEPT ![<<v, p>>] = @ - 1]
    ELSE [k \in DOMAIN refs \ {<<v, p>>} |-> refs[k]]

\* The current period ends: its record replaces that of the one before.
IncrementValidatorPeriod(d, v) ==
    LET p == d.period[v]
    IN [d EXCEPT !.refs = (<<v, p>> :> 1) @@ Release(@, v, p - 1),
                 !.period[v] = p + 1]

\* A delegation starts with the last period that has ended.
InitializeDelegation(d, i) ==
    LET v == Delegations[i].val
        k == <<v, d.period[v] - 1>>
        n == IF k \in DOMAIN d.refs THEN d.refs[k] ELSE 0
    IN [d EXCEPT !.refs = (k :> n + 1) @@ @, !.start[i] = k[2]]

WithdrawDelegationRewards(d, i) ==
    LET v == Delegations[i].val
        inc == IncrementValidatorPeriod(d, v)
    IN InitializeDelegation([inc EXCEPT !.refs = Release(@, v, d.start[i])], i)

\* An address without an accumulated commission is an error, and nothing
\* changes.
WithdrawValidatorCommission(d, addr) ==
    IF addr \in Val THEN [d EXCEPT !.commission[addr] = 0] ELSE d

\* Scraps to the community pool, then AfterValidatorCreated, which fails for
\* an address that no validator has; a failure stops the iteration.
ReinitializeValidator(r, addr) ==
    IF r.stop \/ addr \notin Val THEN [r EXCEPT !.stop = TRUE]
    ELSE [r EXCEPT !.d.pool = @ + r.d.scraps[addr], !.d.scraps[addr] = 0,
                   !.d.refs = (<<addr, 0>> :> 1) @@ @, !.d.period[addr] = 1]

-----------------------------------------------------------------------------
Init ==
    /\ pc = "addresses"
    /\ allowed \in AllowLists
    /\ dist \in [commission : [Val -> 0 .. 1], scraps : [Val -> 0 .. 1], pool : {0},
                 period : {[v \in Val |-> 2]},
                 start : {[i \in DOMAIN Delegations |-> 1]},
                 refs : {[k \in Val \X {1} |-> 1 + Cardinality(
                            {i \in DOMAIN Delegations : Delegations[i].val = k[1]})]}]
    /\ staking = [redelegation |-> Height, unbonding |-> Height, jailed |-> {},
                  bond |-> [v \in Val |-> Height], updated |-> FALSE]
    /\ signing = [v \in Val |-> Height]

Pass(from, to) == pc = from /\ pc' = to /\ UNCHANGED allowed

\* An entry of the allow list that is not a validator address ends the process.
ParseAllowList ==
    /\ IF allowed \subseteq Val THEN Pass("addresses", "withdraw")
                              ELSE Pass("addresses", "exited")
    /\ UNCHANGED <<dist, staking, signing>>

\* Commission, then the rewards of every delegation; errors are ignored.
Withdraw ==
    /\ Pass("withdraw", "delegations")
    /\ LET paid == FoldLeft(LAMBDA d, v : WithdrawValidatorCommission(d, TextBytes(v)),
                            dist, SetToSeq(Val))
       IN dist' = FoldLeft(WithdrawDelegationRewards, paid,
                           [i \in DOMAIN Delegations |-> i])
    /\ UNCHANGED <<staking, signing>>

\* BeforeDelegationCreated and AfterDelegationModified for each.
ReinitializeDelegations ==
    /\ Pass("delegations", "clear")
    /\ dist' = FoldLeft(LAMBDA d, i : InitializeDelegation(
                            IncrementValidatorPeriod(d, Delegations[i].val), i),
                        dist, [i \in DOMAIN Delegations |-> i])
    /\ UNCHANGED <<staking, signing>>

\* DeleteAllValidatorSlashEvents and DeleteAllValidatorHistoricalRewards.
ClearRecords ==
    /\ Pass("clear", "validators")
    /\ dist' = [dist EXCEPT !.refs = <<>>]
    /\ UNCHANGED <<staking, signing>>

\* What stops the iteration is not reported: the export goes on.
ReinitializeValidators ==
    /\ Pass("validators", "heights")
    /\ dist' = FoldLeft(LAMBDA r, v : ReinitializeValidator(r, TextBytes(v)),
                        [d |-> dist, stop |-> FALSE], SetToSeq(Val)).d
    /\ UNCHANGED <<staking, signing>>

\* The entry of a validator: its bond height, and jailed unless it is allowed.
ResetValidators(s, done) ==
    [s EXCEPT !.bond = [v \in Val |-> IF v \in done THEN 0 ELSE @[v]],
              !.jailed = IF allowed = {} THEN @ ELSE @ \cup (done \ allowed)]

\* Redelegations, unbonding delegations, then the validators.  A failed write
\* ends the export; a failed close of the iterator ends the preparation only.
ResetHeights ==
    /\ \/ Pass("heights", "update") \/ Pass("heights", "done")
    /\ staking' = ResetValidators(
                      [staking EXCEPT !.redelegation = 0, !.unbonding = 0], Val)
    /\ UNCHANGED <<dist, signing>>
ResetFails ==
    /\ Pass("heights", "failed")
    /\ \E r, u \in {0, Height}, done \in SUBSET Val :
          /\ u = 0 => r = 0
          /\ done # {} => u = 0
          /\ staking' = ResetValidators(
                            [staking EXCEPT !.redelegation = r, !.unbonding = u], done)
    /\ UNCHANGED <<dist, signing>>

\* ApplyAndReturnValidatorSetUpdates and the signing infos.
Update ==
    /\ Pass("update", "done")
    /\ staking' = [staking EXCEPT !.updated = TRUE]
    /\ signing' = [v \in Val |-> 0]
    /\ UNCHANGED dist
UpdateExits ==
    /\ Pass("update", "exited")
    /\ UNCHANGED <<dist, staking, signing>>
UpdateFails ==
    /\ Pass("update", "failed")
    /\ staking' = [staking EXCEPT !.updated = TRUE]
    /\ \E done \in SUBSET Val : signing' = [v \in Val |-> IF v \in done THEN 0 ELSE signing[v]]
    /\ UNCHANGED dist

Next ==
    \/ ParseAllowList \/ Withdraw \/ ReinitializeDelegations
    \/ ClearRecords \/ ReinitializeValidators \/ ResetHeights \/ ResetFails
    \/ Update \/ UpdateExits \/ UpdateFails

Spec == Init /\ [][Next]_vars

-----------------------------------------------------------------------------
\* "reinitialize all delegations": in the state that is exported, the period
\* every delegation starts with has its record, so that the new chain can
\* compute the delegation's rewards.
StartsRecorded ==
    pc = "done" =>
        \A i \in DOMAIN Delegations :
            <<Delegations[i].val, dist.start[i]>> \in DOMAIN dist.refs

=============================================================================
