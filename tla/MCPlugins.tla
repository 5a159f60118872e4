------------------------------ MODULE MCPlugins ------------------------------
(* The wallet, transact and account creation plugins and the choices of a     *)
(* login, each explored by itself: a behaviour picks its part and stays with it.                     *)
EXTENDS Buoy, Anchor, CloudWallet, FeePlugins, Finality, LoginFlow, Cosign

VARIABLE part

MCSigShapes == [sig : {"", "s1"}, numbered : {<<>>, <<"s1", "s2">>}]
                 \cup {[sig |-> "malformed", numbered |-> <<>>],
                       [sig |-> "", numbered |-> <<"", "s2">>]}

Act(n, au, t) == [name |-> n, auth |-> au, to |-> t]
MCUser == "user"
MCRequests == {<<Act("other", <<"user">>, "x")>>,
               <<Act("other", <<"cosigner">>, "x"), Act("other", <<"user">>, "x")>>,
               <<Act("transfer", <<"user">>, "x"), Act("transfer", <<"user">>, "x")>>}
MCResponses ==
    LET A == {Act("other", <<"user">>, "x"), Act("other", <<"cosigner">>, "x"),
              Act("other", <<"cosigner", "user">>, "x")}
             \cup [name : {"transfer", "buyrambytes"}, auth : {<<"user">>}, to : {"x", "fee", "user"}]
    IN  UNION {[1..n -> A] : n \in 1..3}

MCRequested == <<Bought("want", 0), Bought("want2", 0)>>
MCOffers == LET A == {Bought("want", 0), Bought("want2", 0), Bought("noop", 0), Bought("other", 0),
                      Bought("transfer", 1), Bought("buyrambytes", 1), Bought("powerup", 2),
                      [name |-> "buyrambytes", to |-> "else", cost |-> 1]}
            IN  UNION {[1..n -> A] : n \in 2..4}

MCCreators == [anchor  |-> [select |-> FALSE, chains |-> {"eos", "wax"}],
               jungle4 |-> [select |-> FALSE, chains |-> {"jungle"}],
               any     |-> [select |-> TRUE, chains |-> {}],
               picky   |-> [select |-> TRUE, chains |-> {"eos"}]]
MCKitChains == {"eos", "wax", "jungle"}

(* One wallet, and several: any chain and some, with a permission to select, to   *)
(* enter, or none.                                                                *)
Wallet(i, s, e, c) == [id |-> i, permSelect |-> s, permEntry |-> e, supported |-> c]
MCWalletLists == {<<>>, <<Wallet("w1", TRUE, FALSE, {})>>, <<Wallet("w1", FALSE, FALSE, {"wax"})>>,
                  <<Wallet("w1", TRUE, TRUE, {"eos"}), Wallet("w2", FALSE, FALSE, {"eos", "wax"})>>,
                  <<Wallet("w1", FALSE, FALSE, {}), Wallet("w2", FALSE, TRUE, {})>>}

(* Calls of transact: one action, several, a transaction with and without a    *)
(* header, an identity, and requests for this, for another and for any chain.  *)
Called(g, k, as, h, c, cf) == [given |-> g, kind |-> k, actions |-> as, header |-> h, chain |-> c, contextFree |-> cf]
MCArgs == {Called("args", "action", <<"a">>, NoTapos, "eos", FALSE), Called("args", "actions", <<"a", "b">>, NoTapos, "eos", TRUE),
           Called("args", "actions", <<"a">>, NoTapos, "eos", FALSE),
           Called("args", "transaction", <<"b", "a">>, [ref |-> 0, expire |-> 7], "eos", FALSE)}
          \cup {Called("request", k, <<"a">>, NoTapos, c, FALSE) : k \in {"action", "transaction", "identity"},
                                                               c \in {"eos", "wax", "any"}}
MCHookLists == {<<>>, <<"cosigner">>, <<"append", "cosigner">>, <<"cosigner", "append", "cosigner">>}
MCExpires == {30, 120}

walletVars == <<buoyVars, anchorVars, cloudVars>>
hookVars == <<feeVars, finalityVars, creationVars, loginVars, cosignVars>>

Only(p) ==
    /\ part = p
    /\ IF p = "buoy" THEN TRUE ELSE UNCHANGED buoyVars
    /\ IF p = "anchor" THEN TRUE ELSE UNCHANGED anchorVars
    /\ IF p = "cloud" THEN TRUE ELSE UNCHANGED cloudVars
    /\ IF p = "fee" THEN TRUE ELSE UNCHANGED feeVars
    /\ IF p = "finality" THEN TRUE ELSE UNCHANGED finalityVars
    /\ IF p = "creation" THEN TRUE ELSE UNCHANGED creationVars
    /\ IF p = "login" THEN TRUE ELSE UNCHANGED loginVars
    /\ IF p = "cosign" THEN TRUE ELSE UNCHANGED cosignVars

MCInit ==
    /\ BuoyInit /\ AnchorInit /\ CloudInit /\ CreationInit /\ LoginInit /\ CosignInit
    /\ part \in {"buoy", "anchor", "cloud", "fee", "finality", "creation", "login", "cosign"}
    /\ FeeInit /\ (part = "fee" \/ (plugins = <<"provider">> /\ ~ui /\ ~modify /\ ~ramLow))
    /\ FinalityInit /\ (part = "finality" \/ hook = "checker")
MCNext ==
    /\ UNCHANGED part
    /\ \/ Only("buoy") /\ BuoyNext
       \/ Only("anchor") /\ AnchorNext
       \/ Only("cloud") /\ CloudNext
       \/ Only("fee") /\ FeeNext
       \/ Only("finality") /\ FinalityNext
       \/ Only("creation") /\ CreationNext
       \/ Only("login") /\ LoginNext
       \/ Only("cosign") /\ CosignNext
allVars == <<walletVars, hookVars, part>>
MCSpec == MCInit /\ [][MCNext]_allVars /\ (part = "buoy" => BuoyFairness)
                 /\ (part = "finality" => FinalityFairness)
=============================================================================
