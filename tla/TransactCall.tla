----------------------------- MODULE TransactCall -----------------------------
(***************************************************************************)
(* What Session::transact promises its caller, without stages, revisions,  *)
(* user interface or errors of many kinds: one transaction goes from party *)
(* to party, the hooks and then the wallet; each may change it as long as  *)
(* nobody has fixed it, and may sign it, which fixes it.  The wallet is    *)
(* the last to do so.  The chain gets that transaction with signatures of  *)
(* nothing else, once, and only if the caller asked.  A call that succeeds *)
(* has done what was asked; one that fails may have, if the answer of the  *)
(* node was lost.  Transact implements this module.                        *)
(***************************************************************************)
EXTENDS Naturals

CONSTANT Hooks              \* the parties before the wallet

VARIABLES
    stage,          \* "open", "settled" for the wallet, "signed", "executed", "ok", "failed"
    tx,             \* the transaction: 0, or the party that changed it last
    signers,        \* the parties that signed tx
    strays,         \* the parties whose signature of something else is kept
    fixed,          \* no party may change tx any more
    broadcast,      \* the caller asked for the broadcast
    onChain         \* the chain executed tx

callVars == <<stage, tx, signers, strays, fixed, broadcast, onChain>>

Last == Hooks + 1           \* the wallet

Init ==
    /\ stage = "open" /\ tx = 0
    /\ signers = {} /\ strays = {}
    /\ fixed \in BOOLEAN /\ broadcast \in BOOLEAN
    /\ onChain = FALSE

\* A party changes the transaction, or signs it, or both.
Answers(p, changes, signs) ==
    /\ changes => ~fixed
    /\ tx' = IF changes THEN p ELSE tx
    /\ signers' = IF signs THEN signers \cup {p} ELSE signers
    /\ UNCHANGED <<strays, broadcast, onChain>>

Hook(p, changes, signs) ==
    /\ stage = "open" /\ UNCHANGED stage
    /\ Answers(p, changes, signs)
    /\ fixed' = (fixed \/ signs)

\* A change that came too late is not taken, its signature is kept.
HookTooLate(p) ==
    /\ stage = "open" /\ fixed
    /\ strays' = strays \cup {p}
    /\ UNCHANGED <<stage, tx, signers, fixed, broadcast, onChain>>

Settle ==
    /\ stage = "open" /\ stage' = "settled"
    /\ UNCHANGED <<tx, signers, strays, fixed, broadcast, onChain>>

\* The wallet signs what it changes; it may leave the signing to others.
Wallet(changes, signs) ==
    /\ stage = "settled" /\ stage' = "signed"
    /\ changes => signs
    /\ Answers(Last, changes, signs)
    /\ UNCHANGED fixed

\* A wallet that changed it nevertheless has signed for nothing.
WalletTooLate ==
    /\ stage = "settled" /\ fixed /\ stage' = "failed"
    /\ strays' = strays \cup {Last}
    /\ UNCHANGED <<tx, signers, fixed, broadcast, onChain>>

\* The chain takes a transaction whose signatures are all of it.
Executable == stage = "signed" /\ broadcast /\ signers # {} /\ strays = {}

Execute ==
    /\ Executable /\ stage' = "executed"
    /\ onChain' = TRUE
    /\ UNCHANGED <<tx, signers, strays, fixed, broadcast>>

Succeed ==
    /\ stage = (IF broadcast THEN "executed" ELSE "signed") /\ stage' = "ok"
    /\ UNCHANGED <<tx, signers, strays, fixed, broadcast, onChain>>

Fail ==
    /\ stage \notin {"ok", "failed"} /\ stage' = "failed"
    /\ onChain' \in {onChain} \cup (IF Executable THEN {TRUE} ELSE {})
    /\ UNCHANGED <<tx, signers, strays, fixed, broadcast>>

Next ==
    \/ \E p \in 1 .. Hooks : HookTooLate(p) \/ \E c, s \in BOOLEAN : Hook(p, c, s)
    \/ Settle \/ WalletTooLate \/ (\E c, s \in BOOLEAN : Wallet(c, s))
    \/ Execute \/ Succeed \/ Fail

Spec == Init /\ [][Next]_callVars
=============================================================================
