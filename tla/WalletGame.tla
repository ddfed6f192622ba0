----------------------------- MODULE WalletGame -----------------------------
(***************************************************************************)
(* The wallet example under the tick contract: what its worlds and its     *)
(* commands are, and what it promises of them, in true integers and        *)
(* without the checks the rules of Wallet make.                            *)
(***************************************************************************)
EXTENDS GameTick, Wallet

Vectors == UNION {[0..n-1 -> 0..MaxU] : n \in Nat \ {0}}

Wallets   == [balances : Vectors, rejected : 0..MaxU]
Transfers == [participant : {Host} \cup Nat, recipient : Nat, amounts : Seq(0..MaxU)]

IsWallet(w) == "balances" \in DOMAIN w

Plus(a, b) == a + b

\* A transfer is made if the sender owns a wallet that holds the whole sum and
\* the recipient's balance can hold it too; otherwise it only counts.
PromisedTransfer(w, input) ==
  LET sum  == FoldLeft(Plus, 0, input.amounts)
      from == IF input.participant = Host THEN 0 ELSE input.participant
      After(i) == w.balances[i] + (IF i = input.recipient THEN sum ELSE 0)
                                - (IF i = from THEN sum ELSE 0)
      fair == /\ input.participant # 0 /\ from \in DOMAIN w.balances
              /\ input.recipient \in DOMAIN w.balances
              /\ sum <= w.balances[from] /\ After(input.recipient) <= MaxU
  IN [effects |-> <<>>,
      world |-> IF fair THEN [w EXCEPT !.balances = [i \in DOMAIN @ |-> After(i)]]
                ELSE [w EXCEPT !.rejected = @ + 1]]

Money(balances) == MapThenSumSet(LAMBDA i : balances[i], DOMAIN balances)

\* Money is neither made nor lost: whatever the transfers of a session were, the
\* balances add up to what it started with and fit their width (model.rs,
\* State::transfer writes both balances or none).
Conserved ==
  past # <<>> /\ IsWallet(past[1].world) =>
    /\ Money(world.balances) = Money(past[1].world.balances)
    /\ \A i \in DOMAIN world.balances : world.balances[i] \in 0..MaxU
=============================================================================
