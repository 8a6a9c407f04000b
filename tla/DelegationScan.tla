--------------------------- MODULE DelegationScan ----------------------------
(***************************************************************************)
(* The loop of GetTotalDelegatedAmount.  It reads the delegations of an    *)
(* account in batches and goes on while a batch was full; every read       *)
(* starts at the first delegation.  Reading costs gas.                     *)
(*                                                                         *)
(* A delegation is its value in tokens, rounded up.                        *)
(***************************************************************************)
EXTENDS Integers, Sequences, SequencesExt, FiniteSetsExt, Functions

CONSTANTS Batch,           \* delegations per read (100)
          Value,           \* values of a delegation
          MaxDelegations,  \* bound: delegations of the account
          Slack            \* bound: gas beyond that of reading all of them once

ASSUME ScanAssumption ==
    /\ Batch \in Nat \ {0} /\ MaxDelegations \in Nat /\ Slack \in Nat
    /\ Value \subseteq Nat

VARIABLES delegations,  \* x/staking: of the account, in store order
          batch,        \* rest of the batch being added up
          full,         \* was the batch a full one?
          total,        \* totalDelegatedAmount
          gas,
          status        \* "reading", "adding", "done" or "out of gas"

vars == <<delegations, batch, full, total, gas, status>>

Init ==
    /\ delegations \in BoundedSeq(Value, MaxDelegations)
    /\ batch = <<>> /\ full = FALSE /\ total = 0
    /\ gas \in 0 .. Len(delegations) + Slack
    /\ status = "reading"

\* A faulty read that leaves out the last delegation of a batch.
ReadBatch_Short ==
    /\ status = "reading"
    /\ LET read == SubSeq(delegations, 1, Min({Batch, Len(delegations)}) - 1)
       IN  /\ Len(read) <= gas
           /\ batch' = read
           /\ full' = (Len(read) = Batch)
           /\ gas' = gas - Len(read)
           /\ status' = "adding"
    /\ UNCHANGED <<delegations, total>>

\* GetDelegatorDelegations(ctx, addr, 100)
ReadBatch ==
    /\ status = "reading"
    /\ LET read == SubSeq(delegations, 1, Min({Batch, Len(delegations)}))
       IN  IF Len(read) > gas
           THEN status' = "out of gas" /\ UNCHANGED <<batch, full, gas>>
           ELSE /\ batch' = read
                /\ full' = (Len(read) = Batch)
                /\ gas' = gas - Len(read)
                /\ status' = "adding"
    /\ UNCHANGED <<delegations, total>>

AddDelegation ==
    /\ status = "adding"
    /\ batch # <<>>
    /\ total' = total + Head(batch)
    /\ batch' = Tail(batch)
    /\ UNCHANGED <<delegations, full, gas, status>>

\* A faulty end of the loop that goes on after any batch that was not empty.
EndBatch_NonEmpty ==
    /\ status = "adding"
    /\ batch = <<>>
    /\ status' = IF delegations # <<>> THEN "reading" ELSE "done"
    /\ UNCHANGED <<delegations, batch, full, total, gas>>

EndBatch ==
    /\ status = "adding"
    /\ batch = <<>>
    /\ status' = IF full THEN "reading" ELSE "done"
    /\ UNCHANGED <<delegations, batch, full, total, gas>>

Next == ReadBatch \/ AddDelegation \/ EndBatch

\* The loop runs without waiting for anything.
Spec == Init /\ [][Next]_vars /\ WF_vars(Next)

-----------------------------------------------------------------------------
(* Properties                                                               *)

\* The answer is the sum of the account's delegations, each counted once.
TotalIsSum ==
    status = "done" => total = SumFunction(delegations)

\* The loop ends with an answer when the gas pays for every delegation once.
ScanAnswers == gas >= Len(delegations) => <>(status = "done")
==============================================================================
