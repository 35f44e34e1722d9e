-------------------------- MODULE FundingVerifier --------------------------
(***************************************************************************)
(* process_transaction_with_dbtx and FundingVerifier of                    *)
(* src/fedimint-server/src/consensus/transaction.rs.                       *)
(*                                                                         *)
(* Every peer of the federation runs process_transaction_with_dbtx on the  *)
(* same transaction and must reach the same result.  Each peer here is a   *)
(* process stepping through the function: the parallel input verification, *)
(* the inputs in order, the signatures, the outputs in order, and          *)
(* verify_funding.  Amount is a u64 of msat; the model keeps its overflow  *)
(* behaviour with a width of Width bits.  What the modules answer is a     *)
(* property of the item (it verifies, it processes), the same on every     *)
(* peer.                                                                    *)
(***************************************************************************)
EXTENDS Integers, Sequences, SequencesExt

CONSTANTS
    Peers,          \* peers processing the transaction
    Width,          \* bits of Amount (u64 in the code)
    Amounts,        \* amounts an item may carry
    Fees,           \* fees an item may carry
    Outcomes,       \* what verify_input / process_input / process_output may answer
    MaxInputs,      \* inputs per transaction
    MaxOutputs,     \* outputs per transaction
    Versions        \* CoreConsensusVersion values, as <<major, minor>>

MaxAmount == 2^Width - 1
NoAmount == -1                  \* checked_add's None

ASSUME /\ Width \in Nat \ {0}
       /\ Amounts \subseteq 0..MaxAmount /\ Fees \subseteq 0..MaxAmount
       /\ Outcomes \subseteq BOOLEAN /\ Outcomes # {}

\* TransactionItemAmount plus what the item's module answers for it.
InputItems == [amount : Amounts, fee : Fees, verifies : Outcomes, processes : Outcomes]
OutputItems == [amount : Amounts, fee : Fees, processes : Outcomes]
Transactions ==
    [inputs : BoundedSeq(InputItems, MaxInputs),
     outputs : BoundedSeq(OutputItems, MaxOutputs),
     signed : Outcomes]

VARIABLES
    tx,             \* the transaction
    version,        \* the consensus version
    pc,             \* [Peers -> location in process_transaction_with_dbtx]
    idx,            \* [Peers -> index of the input or output being processed]
    verifier,       \* [Peers -> FundingVerifier]
    result          \* [Peers -> the Result returned, once pc = "done"]

vars == <<tx, version, pc, idx, verifier, result>>

Ok == "Ok"
Overflow == "TRANSACTION_OVERFLOW_ERROR"
Unbalanced == "UnbalancedTransaction"
BadSignature == "InvalidSignature"

-----------------------------------------------------------------------------
(* FundingVerifier                                                         *)

\* Mutant: a plain add that does not check the width.
CheckedAddUnchecked(a, b) == a + b

\* Amount::checked_add on a Width-bit amount.
CheckedAdd(a, b) == IF a + b > MaxAmount THEN NoAmount ELSE a + b

\* FundingVerifier::default
ZeroVerifier == [input_amount |-> 0, output_amount |-> 0, fee_amount |-> 0]

\* What add_input or add_output return for TRANSACTION_OVERFLOW_ERROR.
OverflowError == [overflow |-> TRUE]

\* add_input: the new verifier, or OverflowError when a checked_add overflows.
AddInput(v, item) ==
    LET in == CheckedAdd(v.input_amount, item.amount)
        fee == CheckedAdd(v.fee_amount, item.fee)
    IN IF in = NoAmount \/ fee = NoAmount THEN OverflowError
       ELSE [v EXCEPT !.input_amount = in, !.fee_amount = fee]

\* Mutant: output amounts wrap around instead of being checked.
AddOutputWrapping(v, item) ==
    LET out == (v.output_amount + item.amount) % (MaxAmount + 1)
        fee == CheckedAdd(v.fee_amount, item.fee)
    IN IF fee = NoAmount THEN OverflowError
       ELSE [v EXCEPT !.output_amount = out, !.fee_amount = fee]

\* add_output
AddOutput(v, item) ==
    LET out == CheckedAdd(v.output_amount, item.amount)
        fee == CheckedAdd(v.fee_amount, item.fee)
    IN IF out = NoAmount \/ fee = NoAmount THEN OverflowError
       ELSE [v EXCEPT !.output_amount = out, !.fee_amount = fee]

\* version >= CoreConsensusVersion::new(2, 1), ordered by major then minor.
AtLeast21(ver) == ver[1] > 2 \/ (ver[1] = 2 /\ ver[2] >= 1)

\* Mutant: the over-funding rule needs a version strictly above 2.1.
VerifyFundingAbove21(v, ver) ==
    LET outputsAndFees == CheckedAdd(v.output_amount, v.fee_amount)
    IN IF outputsAndFees = NoAmount THEN Overflow
       ELSE IF v.input_amount = outputsAndFees THEN Ok
       ELSE IF v.input_amount > outputsAndFees
               /\ (ver[1] > 2 \/ (ver[1] = 2 /\ ver[2] > 1)) THEN Ok
       ELSE Unbalanced

\* verify_funding: balanced, or over-funded from version 2.1 on.
VerifyFunding(v, ver) ==
    LET outputsAndFees == CheckedAdd(v.output_amount, v.fee_amount)
    IN IF outputsAndFees = NoAmount THEN Overflow
       ELSE IF v.input_amount = outputsAndFees THEN Ok
       ELSE IF v.input_amount > outputsAndFees /\ AtLeast21(ver) THEN Ok
       ELSE Unbalanced

-----------------------------------------------------------------------------
(* process_transaction_with_dbtx, one step per await or loop turn          *)

Finish(p, r) ==
    /\ pc' = [pc EXCEPT ![p] = "done"]
    /\ result' = [result EXCEPT ![p] = r]

\* Whichever input fails verification, the error is the same variant.
VerifyError(i) == "InvalidWitnessLength"

\* The inputs are verified in parallel; try_for_each stops at whichever
\* failing input rayon reaches first.
VerifyInputs(p) ==
    /\ pc[p] = "verify"
    /\ LET failing == {i \in DOMAIN tx.inputs : ~tx.inputs[i].verifies} IN
       IF failing = {}
       THEN /\ pc' = [pc EXCEPT ![p] = "inputs"]
            /\ UNCHANGED result
       ELSE \E i \in failing : Finish(p, VerifyError(i))
    /\ UNCHANGED <<tx, version, idx, verifier>>

\* One turn of the inputs loop: process_input, then add_input.
ProcessInput(p) ==
    /\ pc[p] = "inputs"
    /\ idx[p] <= Len(tx.inputs)
    /\ LET item == tx.inputs[idx[p]]
           v == AddInput(verifier[p], item)
       IN IF ~item.processes \/ v = OverflowError
          THEN /\ Finish(p, IF ~item.processes THEN <<"Input", idx[p]>> ELSE Overflow)
               /\ UNCHANGED <<verifier, idx>>
          ELSE /\ verifier' = [verifier EXCEPT ![p] = v]
               /\ idx' = [idx EXCEPT ![p] = @ + 1]
               /\ UNCHANGED <<pc, result>>
    /\ UNCHANGED <<tx, version>>

\* The inputs loop ends; validate_signatures over the collected keys.
ValidateSignatures(p) ==
    /\ pc[p] = "inputs"
    /\ idx[p] > Len(tx.inputs)
    /\ IF tx.signed
       THEN /\ pc' = [pc EXCEPT ![p] = "outputs"]
            /\ idx' = [idx EXCEPT ![p] = 1]
            /\ UNCHANGED result
       ELSE /\ Finish(p, BadSignature)
            /\ UNCHANGED idx
    /\ UNCHANGED <<tx, version, verifier>>

\* One turn of the outputs loop: process_output, then add_output.
ProcessOutput(p) ==
    /\ pc[p] = "outputs"
    /\ idx[p] <= Len(tx.outputs)
    /\ LET item == tx.outputs[idx[p]]
           v == AddOutput(verifier[p], item)
       IN IF ~item.processes \/ v = OverflowError
          THEN /\ Finish(p, IF ~item.processes THEN <<"Output", idx[p]>> ELSE Overflow)
               /\ UNCHANGED <<verifier, idx>>
          ELSE /\ verifier' = [verifier EXCEPT ![p] = v]
               /\ idx' = [idx EXCEPT ![p] = @ + 1]
               /\ UNCHANGED <<pc, result>>
    /\ UNCHANGED <<tx, version>>

\* The outputs loop ends; verify_funding decides.
FundingCheck(p) ==
    /\ pc[p] = "outputs"
    /\ idx[p] > Len(tx.outputs)
    /\ Finish(p, VerifyFunding(verifier[p], version))
    /\ UNCHANGED <<tx, version, idx, verifier>>

-----------------------------------------------------------------------------

\* Every peer has returned.
Terminated ==
    /\ \A p \in Peers : pc[p] = "done"
    /\ UNCHANGED vars

Init ==
    /\ tx \in Transactions
    /\ version \in Versions
    /\ pc = [p \in Peers |-> "verify"]
    /\ idx = [p \in Peers |-> 1]
    /\ verifier = [p \in Peers |-> ZeroVerifier]
    /\ result = [p \in Peers |-> "none"]

Next ==
    \/ \E p \in Peers :
          \/ VerifyInputs(p)
          \/ ProcessInput(p)
          \/ ValidateSignatures(p)
          \/ ProcessOutput(p)
          \/ FundingCheck(p)
    \/ Terminated

Spec == Init /\ [][Next]_vars

-----------------------------------------------------------------------------
(* Properties                                                              *)

Results == {Ok, Overflow, Unbalanced, BadSignature, "InvalidWitnessLength", "none"}
           \cup ({"Input"} \X (1..MaxInputs)) \cup ({"Output"} \X (1..MaxOutputs))

TypeOK ==
    /\ tx \in Transactions
    /\ pc \in [Peers -> {"verify", "inputs", "outputs", "done"}]
    /\ verifier \in [Peers -> [input_amount : 0..MaxAmount,
                               output_amount : 0..MaxAmount,
                               fee_amount : 0..MaxAmount]]
    /\ result \in [Peers -> Results]

\* Sums in unbounded integers, as the reference.
Total(items, field) == FoldSeq(LAMBDA it, acc : it[field] + acc, 0, items)
InSum == Total(tx.inputs, "amount")
OutSum == Total(tx.outputs, "amount")
FeeSum == Total(tx.inputs, "fee") + Total(tx.outputs, "fee")

\* A transaction that verify_funding accepts never creates money: the
\* inputs pay for the outputs and every fee, counted without a width, so an
\* accepted transaction cannot rely on a sum that wrapped.
NoInflation ==
    \A p \in Peers : result[p] = Ok => InSum >= OutSum + FeeSum

\* The reference verdict when every module accepts every item and the
\* signatures are valid: an overflow of any sum is an error, a balanced
\* transaction is accepted, an over-funded one only from version 2.1 on.
AllItemsAccepted ==
    /\ \A i \in DOMAIN tx.inputs : tx.inputs[i].verifies /\ tx.inputs[i].processes
    /\ \A i \in DOMAIN tx.outputs : tx.outputs[i].processes
    /\ tx.signed
ReferenceVerdict ==
    IF \E s \in {InSum, OutSum, FeeSum, OutSum + FeeSum} : s > MaxAmount THEN Overflow
    ELSE IF InSum = OutSum + FeeSum THEN Ok
    ELSE IF InSum > OutSum + FeeSum /\ 100 * version[1] + version[2] >= 201 THEN Ok
    ELSE Unbalanced

\* process_transaction_with_dbtx, stepping through the items one checked_add
\* at a time, reaches the reference verdict.
FundingMatchesReference ==
    \A p \in Peers :
        (pc[p] = "done" /\ AllItemsAccepted) => result[p] = ReferenceVerdict

====
