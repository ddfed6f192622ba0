------------------------------- MODULE Wallet -------------------------------
(***************************************************************************)
(* The rules of the wallet example (examples/wallet/src/model.rs and       *)
(* simulation.rs): a tick's transfers are applied in order, each of them   *)
(* entirely or not at all, in unsigned integers of a fixed width.          *)
(*                                                                         *)
(* A wallet is [balances, rejected]; balances are indexed from 0. A        *)
(* command's sender comes from the participant the framework bound to it.  *)
(***************************************************************************)
EXTENDS Integers, SequencesExt

CONSTANTS
  MaxU,   \* the largest value of u64
  Host    \* ParticipantId::Host; remote participants are numbers

ASSUME WidthAssumption == MaxU \in Nat
ASSUME HostAssumption  == Host \notin Nat

\* u64::checked_add, or -1.
CheckedAdd(a, b) == IF a + b > MaxU THEN -1 ELSE a + b

\* One more amount, unless the sum overflowed before.
CheckedSum(sum, amount) == IF sum = -1 THEN -1 ELSE CheckedAdd(sum, amount)

\* The amounts of a command added up, or -1 when a sum overflows on the way.
Total(amounts) == FoldLeft(CheckedSum, 0, amounts)

\* WalletGame::create: at least one wallet is required.
CreateWallet(balances, none) ==
  IF DOMAIN balances = {} THEN none ELSE [balances |-> balances, rejected |-> 0]

\* The wallet a participant debits: the host's is 0, remote 0 has none.
Sender(participant) ==
  IF participant = Host THEN 0 ELSE IF participant = 0 THEN -1 ELSE participant

\* State::transfer: every condition is checked before a balance is written.
Transferable(w, from, to, amount) ==
  /\ amount # -1
  /\ from \in DOMAIN w.balances /\ w.balances[from] >= amount
  /\ from # to => /\ to \in DOMAIN w.balances
                  /\ CheckedAdd(w.balances[to], amount) # -1

\* Mutant: what the sender keeps is written last, over what it receives.
PaidTwice(w, from, to, amount) ==
  [w.balances EXCEPT ![to] = w.balances[to] + amount, ![from] = w.balances[from] - amount]

\* The balances after a transfer that passed; a transfer to oneself moves nothing.
Paid(w, from, to, amount) ==
  IF from = to THEN w.balances
  ELSE [w.balances EXCEPT ![from] = @ - amount, ![to] = @ + amount]

\* WalletSimulation::advance for one input: a refused transfer is counted, and
\* the session fails when the count is exhausted.
TransferRule(w, input) ==
  LET from   == Sender(input.participant)
      amount == Total(input.amounts)
  IN IF Transferable(w, from, input.recipient, amount)
       THEN [ok |-> TRUE, effects |-> <<>>,
             world |-> [w EXCEPT !.balances = Paid(w, from, input.recipient, amount)]]
     ELSE IF CheckedAdd(w.rejected, 1) = -1
       THEN [ok |-> FALSE, effects |-> <<>>, world |-> w]
     ELSE [ok |-> TRUE, effects |-> <<>>, world |-> [w EXCEPT !.rejected = @ + 1]]
=============================================================================
