------------------------------ MODULE FeePlugins ------------------------------
(***************************************************************************)
(* The two transact plugins that make a user pay for resources, run by      *)
(* Session::transact one after the other over one request: the resource     *)
(* provider, whose service offers a changed and signed transaction, and     *)
(* autocorrect, which buys what a trial run of the transaction lacked.      *)
(*                                                                         *)
(* src/plugins/transact/resource_provider.cpp   request and its checks      *)
(* src/plugins/transact/autocorrect.cpp         run, correct, buyram,       *)
(*                                              powerup                     *)
(* src/session/session.cpp                      the beforeSign loop         *)
(*                                                                         *)
(* An action is what it is, for whom, and what it costs the user (a unit    *)
(* of the chain's token; prices are chosen, not computed).                  *)
(***************************************************************************)
EXTENDS Naturals, Sequences, FiniteSets, SequencesExt

CONSTANTS Requested,    \* the actions the caller asks for
          Offers,       \* transactions a provider may answer with
          MaxFee,       \* ResourceProviderOptions::maxFee
          AllowFees,    \* ResourceProviderOptions::allowFees
          PowerupPrice, RamPrice

Priced == [name : STRING \cup {"buyrambytes", "powerup"}, to : STRING \cup {"user"}, cost : Nat]

\* A cost is what a purchase adds for the user: an action the caller asked for has
\* none, nor has a noop.
ASSUME FeeAssumption ==
    /\ MaxFee \in Nat /\ AllowFees \in BOOLEAN /\ PowerupPrice \in Nat /\ RamPrice \in Nat
    /\ Requested \in Seq(Priced) /\ Offers \subseteq Seq(Priced)
    /\ \A i \in DOMAIN Requested : Requested[i].cost = 0
    /\ \A o \in Offers : \A i \in DOMAIN o : o[i].name = "noop" => o[i].cost = 0

VARIABLES plugins,     \* the plugins whose hooks are still to run
          ui,          \* is there a UI
          tx,          \* the request's actions
          modify,      \* may a hook still change the request
          stage,       \* "hook" between hooks, else where a hook is
          trial,       \* autocorrect: the request it is correcting
          price,       \* autocorrect: price_ (0: none)
          iterations,  \* autocorrect: iterations_
          ramLow,      \* autocorrect: the account cannot hold a powerup
          agreed,      \* history: what the user agreed to pay for tx
          recounted    \* history: an offer was taken that repeats or drops a copy of an action

feeVars == <<plugins, ui, tx, modify, stage, trial, price, iterations, ramLow, agreed, recounted>>
idleCorrect == <<trial, price, iterations, ramLow>>

Bought(n, c) == [name |-> n, to |-> "user", cost |-> c]

FeeInit ==
    /\ plugins \in {<<"provider">>, <<"autocorrect">>,
                    <<"provider", "autocorrect">>, <<"autocorrect", "provider">>}
    /\ ui \in BOOLEAN /\ modify \in BOOLEAN
    /\ tx = Requested /\ stage = "hook"
    /\ trial = <<>> /\ price = 0 /\ iterations = 0 /\ ramLow \in BOOLEAN
    /\ agreed = 0 /\ recounted = FALSE

\* What the actions at some places of a transaction cost: their units, counted.
Units(s, places) == UNION {{i} \X (1..s[i].cost) : i \in places}
Cost(s, places) == Cardinality(Units(s, places))

Turn(p) == stage = "hook" /\ plugins # <<>> /\ Head(plugins) = p

\* The session's loop takes an answer over only while the request is open; a
\* signature closes it. The user agreed to pay fee for the answer.
Respond(answer, signed, fee) ==
    /\ plugins' = Tail(plugins) /\ stage' = "hook"
    /\ tx' = IF modify THEN answer ELSE tx
    /\ agreed' = IF modify THEN agreed + fee ELSE agreed
    /\ modify' = (modify /\ ~signed)
    /\ UNCHANGED ui

\* A hook that fails ends the transact call.
FailHook == stage' = "failed" /\ UNCHANGED <<plugins, ui, tx, modify, agreed>>

---------------------------------------------------------------------------
(* resource_provider.cpp                                                    *)

hasOriginalActions(original, modified) ==
    \A i \in DOMAIN original : Contains(modified, original[i])

\* The places of the new actions.
getNewActions(original, modified) == {i \in DOMAIN modified : ~Contains(original, modified[i])}

\* Only noops, token transfers and RAM for the requesting account may be new.
OfferAllowed(offer, added) ==
    \A i \in added :
        \/ offer[i].name \in {"noop", "transfer"}
        \/ offer[i].name = "buyrambytes" /\ offer[i].to = "user"

addedFees(offer, added) == Cost(offer, {i \in added : offer[i].name \in {"transfer", "buyrambytes"}})

Times(a, s) == Cardinality({i \in DOMAIN s : s[i] = a})

\* No endpoint, no fetch, no answer, no JSON, a status that is neither 200 nor
\* 402, or a fee that is not allowed: the request goes on unchanged.
ProviderDeclines ==
    /\ Turn("provider")
    /\ Respond(tx, FALSE, 0)
    /\ UNCHANGED <<idleCorrect, recounted>>

\* The answer or the request is malformed: no transaction in it, no signature,
\* a 402 without a fee, a first authoriser that is not the session's.
ProviderFails ==
    /\ Turn("provider")
    /\ FailHook /\ UNCHANGED <<idleCorrect, recounted>>

ProviderOffers(offer, payment) ==
    LET added == getNewActions(tx, offer)
        fee == addedFees(offer, added)
    IN  /\ Turn("provider")
        /\ IF \/ payment /\ ~AllowFees
              \/ ~hasOriginalActions(tx, offer)
              \/ ~OfferAllowed(offer, added)
              \/ fee > MaxFee
           THEN Respond(tx, FALSE, 0)
           ELSE \/ ~(ui /\ fee > 0) /\ Respond(offer, TRUE, fee)
                \/ ui /\ fee > 0 /\ \/ Respond(offer, TRUE, fee)
                                    \/ Respond(tx, FALSE, 0)
                                    \/ FailHook
        /\ recounted' = (recounted \/ (tx' # tx /\ \E i \in DOMAIN tx :
                                          Times(tx[i], offer) # Times(tx[i], tx)))
        /\ UNCHANGED idleCorrect

---------------------------------------------------------------------------
(* autocorrect.cpp                                                          *)

\* run(): the member state of the plugin is reset. Without a UI the hook that
\* was registered only reports an error; get_account may fail.
CorrectBegins ==
    /\ Turn("autocorrect")
    /\ \/ ui /\ stage' = "correct" /\ UNCHANGED <<plugins, ui, tx, modify, agreed>>
       \/ FailHook
    /\ trial' = tx /\ price' = 0 /\ iterations' = 0
    /\ UNCHANGED <<ramLow, recounted>>

\* A mutant: powerup's price replaces the price so far.
AddPriceReplaces(p) == price' = p

AddPrice(p) == price' = price + p

\* correct(): the trial run finds nothing to correct, or cannot be made, or the
\* chain is not configured: what there is is proposed.
CorrectEnds ==
    /\ stage = "correct" /\ iterations < 3
    /\ iterations' = iterations + 1
    /\ stage' = "propose"
    /\ UNCHANGED <<plugins, ui, tx, modify, agreed, trial, price, ramLow, recounted>>

\* ram_usage_exceeded: buyram puts a purchase first and corrects again.
BuyRam ==
    /\ stage = "correct" /\ iterations < 3
    /\ iterations' = iterations + 1
    /\ trial' = <<Bought("buyrambytes", RamPrice)>> \o trial
    /\ AddPrice(RamPrice)
    /\ UNCHANGED <<plugins, ui, tx, modify, stage, agreed, ramLow, recounted>>

\* tx_net_usage_exceeded, tx_cpu_usage_exceeded: a powerup goes first, before it
\* the RAM it needs, which is bought only once per run.
PowerUp ==
    /\ stage = "correct" /\ iterations < 3
    /\ iterations' = iterations + 1
    /\ LET powered == <<Bought("powerup", PowerupPrice)>> \o trial
       IN  trial' = IF ramLow THEN <<Bought("buyrambytes", RamPrice)>> \o powered ELSE powered
    /\ AddPrice(PowerupPrice + (IF ramLow THEN RamPrice ELSE 0))
    /\ ramLow' = FALSE
    /\ UNCHANGED <<plugins, ui, tx, modify, stage, agreed, recounted>>

\* A fourth correction, or a price or a state that cannot be had.
CorrectFails ==
    /\ stage = "correct"
    /\ FailHook /\ UNCHANGED <<idleCorrect, recounted>>

\* The user is asked for the whole price; no change and no price asks nothing.
Propose ==
    /\ stage = "propose"
    /\ IF trial = tx /\ price = 0 THEN Respond(tx, FALSE, 0)
       ELSE \/ Respond(trial, FALSE, price)
            \/ Respond(tx, FALSE, 0)
            \/ FailHook
    /\ UNCHANGED <<idleCorrect, recounted>>

FeeNext ==
    \/ ProviderDeclines \/ ProviderFails
    \/ \E o \in Offers, p \in BOOLEAN : ProviderOffers(o, p)
    \/ CorrectBegins \/ CorrectEnds \/ BuyRam \/ PowerUp \/ CorrectFails \/ Propose

---------------------------------------------------------------------------
(* Properties.                                                              *)

\* However the two plugins follow each other and however often autocorrect
\* corrects its own correction, the purchases in the transaction cost what the
\* user was shown and agreed to; without a UI nobody is asked and they cost at
\* most maxFee (resource_provider.cpp:271-315, autocorrect.cpp:271-275,330-384).
\* The exception is an offer with more or fewer copies of an action of the request: only
\* their presence is compared (resource_provider.cpp:34-58). And what the caller
\* asked for is in the transaction whoever changed it.
PaidIsAgreed ==
    LET paid == Cost(tx, getNewActions(Requested, tx))
    IN  /\ recounted \/ (paid = agreed /\ (~ui => paid <= MaxFee))
        /\ \A i \in DOMAIN Requested : Contains(tx, Requested[i])
=============================================================================
