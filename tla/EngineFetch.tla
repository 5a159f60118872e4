---------------------------- MODULE EngineFetch ----------------------------
(***************************************************************************)
(* One HTTP call of the kit, from APIClient::call down to the provider and *)
(* back: Godot polls an HTTPClient (adapters/godot/src/dk_providers.cpp),  *)
(* Unreal waits for a completion that runs on the HTTP thread and may come *)
(* after the worker gave up (DkUnrealProviders.cpp), curl blocks           *)
(* (src/transport/curl_fetch_provider.cpp).  A body is counted in units of *)
(* the limit; what it holds is "value" (JSON), "error" (a JSON object with *)
(* an error object) or "text" (not JSON, as is any JSON cut short).        *)
(***************************************************************************)
EXTENDS Naturals

CONSTANTS
    MaxResponse,     \* maxResponseBytes
    BodySizes,       \* the sizes of the answers
    MaxFetches       \* bound: calls, one after the other

ASSUME FetchAssumption ==
    MaxResponse \in Nat /\ BodySizes \subseteq Nat /\ MaxFetches \in Nat

VARIABLES
    fetch,        \* the call: its provider, where it is, the body so far, its result
    answer,       \* what the server answers
    http,         \* FHttpState, shared with Unreal's completion delegate
    due,          \* the deadline has passed
    halted,       \* the kit's CancelToken is cancelled
    broken,       \* history: the connection broke while the body was read
    fetches       \* calls made

fetchVars == <<fetch, answer, http, due, halted, broken, fetches>>

NoFetch == [provider |-> "none", at |-> "idle", body |-> 0, result |-> "none"]
NoHttp == [done |-> FALSE, succeeded |-> FALSE, tooLarge |-> FALSE]
Answers == [ok : BOOLEAN, holds : {"value", "error", "text"}, size : BodySizes]

FetchInit ==
    /\ fetch = NoFetch
    /\ answer \in {a \in Answers : a.ok /\ a.holds = "value" /\ a.size = 1}
    /\ http = NoHttp
    /\ due = FALSE /\ halted = FALSE /\ broken = FALSE
    /\ fetches = 0

At(provider, place) == fetch.provider = provider /\ fetch.at = place
Returns(r) == fetch' = [fetch EXCEPT !.at = "returned", !.result = r]

----------------------------------------------------------------------------
\* fetch() begins; Unreal hands the request to the engine's HTTP thread.
StartFetch ==
    /\ fetch.at = "idle" /\ fetches < MaxFetches
    /\ fetches' = fetches + 1
    /\ \E p \in {"godot", "unreal", "curl"} : fetch' = [NoFetch EXCEPT !.provider = p, !.at = "connecting"]
    /\ answer' \in Answers
    /\ http' = NoHttp /\ due' = FALSE /\ broken' = FALSE
    /\ UNCHANGED halted

TimePasses == ~due /\ due' = TRUE /\ UNCHANGED <<fetch, answer, http, halted, broken, fetches>>
HaltKit == ~halted /\ halted' = TRUE /\ UNCHANGED <<fetch, answer, http, due, broken, fetches>>

\* Godot: connected and the request is sent.
GodotRequest ==
    /\ At("godot", "connecting")
    /\ fetch' = [fetch EXCEPT !.at = "requesting"]
    /\ UNCHANGED <<answer, http, due, halted, broken, fetches>>
\* connect_to_host, the connection or request() failed, or there is no response.
GodotFails ==
    /\ fetch.provider = "godot" /\ fetch.at \in {"connecting", "requesting"}
    /\ Returns("network")
    /\ UNCHANGED <<answer, http, due, halted, broken, fetches>>
\* The status and the headers are there.
GodotHeaders ==
    /\ At("godot", "requesting")
    /\ fetch' = [fetch EXCEPT !.at = "body"]
    /\ UNCHANGED <<answer, http, due, halted, broken, fetches>>
\* A poll that found nothing new: the deadline first, then the token.  In the body
\* neither is looked at as long as every poll finds a chunk.
GodotPoll ==
    /\ fetch.provider = "godot" /\ fetch.at \in {"connecting", "requesting", "body"}
    /\ due \/ halted
    /\ Returns(IF due THEN "timeout" ELSE "cancelled")
    /\ UNCHANGED <<answer, http, due, halted, broken, fetches>>
\* A chunk is added unless the body would become too large.
BodyChunk ==
    /\ At("godot", "body") \/ At("curl", "connecting")
    /\ fetch.body < answer.size
    /\ IF fetch.body + 1 > MaxResponse THEN Returns("network")
       ELSE fetch' = [fetch EXCEPT !.body = @ + 1]
    /\ UNCHANGED <<answer, http, due, halted, broken, fetches>>
\* The status is no longer STATUS_BODY: the body is whole, or the connection broke,
\* which nothing tells apart.
GodotBodyEnds ==
    /\ At("godot", "body")
    /\ broken' = (fetch.body < answer.size)
    /\ Returns("ok")
    /\ UNCHANGED <<answer, http, due, halted, fetches>>

\* Unreal: the completion delegate, once per request, also after CancelRequest.
UnrealComplete ==
    /\ fetch.provider = "unreal" /\ ~http.done
    /\ \E connected \in BOOLEAN :
           http' = [done |-> TRUE, succeeded |-> connected /\ answer.size <= MaxResponse,
                    tooLarge |-> connected /\ answer.size > MaxResponse]
    /\ UNCHANGED <<fetch, answer, due, halted, broken, fetches>>
\* WaitEvent returns: by the event, or by its bound or the token, also when the
\* event came just after they were looked at.
UnrealWaitOver ==
    /\ At("unreal", "connecting")
    /\ \/ /\ http.done
          /\ fetch' = [fetch EXCEPT !.at = "returned",
                 !.result = IF http.succeeded THEN "ok" ELSE "network",
                 !.body = IF http.succeeded THEN answer.size ELSE 0]
       \/ /\ due \/ halted
          /\ Returns(IF halted THEN "cancelled" ELSE "timeout")
    /\ UNCHANGED <<answer, http, due, halted, broken, fetches>>

\* curl_easy_perform ends; CURLE_OK only with a whole body.
CurlOver ==
    /\ At("curl", "connecting")
    /\ \/ fetch.body = answer.size /\ Returns("ok")
       \/ Returns("network")
       \/ due /\ Returns("timeout")
    /\ UNCHANGED <<answer, http, due, halted, broken, fetches>>

\* FetchAPIProvider::call parses the body, APIClient::call tells values from errors.
Parsed == IF fetch.body < answer.size THEN "text" ELSE answer.holds
ApiReturns ==
    /\ fetch.at = "returned"
    /\ fetch' = [fetch EXCEPT !.at = "idle",
           !.result = IF @ # "ok" THEN @
                      ELSE IF ~answer.ok \/ Parsed = "error" THEN "apiError" ELSE Parsed]
    /\ UNCHANGED <<answer, http, due, halted, broken, fetches>>

FetchNext ==
    \/ StartFetch \/ TimePasses \/ HaltKit
    \/ GodotRequest \/ GodotFails \/ GodotHeaders \/ GodotPoll \/ GodotBodyEnds \/ BodyChunk
    \/ UnrealComplete \/ UnrealWaitOver \/ CurlOver \/ ApiReturns

----------------------------------------------------------------------------
\* A call that succeeds gives the whole body of a successful answer that is no error
\* and fits the limit, whichever provider made it and however late the engine's own
\* completion came; only a connection that breaks under Godot's body loop passes for
\* the end of the body (dk_providers.cpp:150).  A call is cancelled or times out only
\* when the token or the clock says so, and curl is never cancelled.
WholeAnswer ==
    fetch.at = "idle" /\ fetch.provider # "none" =>
        /\ fetch.result \in {"value", "text"} =>
               /\ answer.ok /\ fetch.body <= MaxResponse
               /\ broken \/ (fetch.body = answer.size /\ fetch.result = answer.holds)
        /\ fetch.result = "cancelled" => halted /\ fetch.provider # "curl"
        /\ fetch.result = "timeout" => due
=============================================================================
