-------------------------------- MODULE Msigs --------------------------------
(* MsigsClient (src/msigs/msigs.cpp): lists of proposals and approvals, page by   *)
(* page. The client checks a limit against the largest the service takes, which   *)
(* it was given, learns once from get_status, or assumes when that call fails.    *)
(* The service (external) answers a larger limit with the rows it will give.      *)
EXTENDS Integers, FiniteSets

CONSTANTS MsigRows,        \* rows of a list, a set of sizes
          MsigLimits,      \* limits a caller asks for
          ServiceMax,      \* what the service gives at most, by kind of list
          DefaultMax,      \* 20 proposals, 100 approvals
          GivenMax,        \* MsigsClientOptions, a set of records by kind
          Unset,           \* an option that is not there
          MaxMsigCalls     \* bound: pages of one walk

ASSUME MsigsAssumption ==
    /\ MsigRows \subseteq Nat /\ MsigLimits \subseteq Nat \ {0} /\ Unset \notin Nat
    /\ ServiceMax \in [{"proposals", "approvals"} -> Nat]
    /\ DefaultMax \in [{"proposals", "approvals"} -> Nat]
    /\ GivenMax \subseteq [{"proposals", "approvals"} -> Nat \cup {Unset}]

VARIABLES msigLimits,   \* maxProposalLimit_, maxApprovalLimit_ and limitsInitialized_
          listing       \* a caller's walk: its list, where it is, what it has seen

msigsVars == <<msigLimits, listing>>
Kinds == {"proposals", "approvals"}

\* MsigsClient's constructor; a caller then begins a walk over one list.
MsigsInit ==
    /\ \E g \in GivenMax : msigLimits = [max |-> g, initialized |-> FALSE, learned |-> {}]
    /\ \E k \in Kinds, n \in MsigRows, l \in MsigLimits :
           listing = [kind |-> k, rows |-> n, limit |-> l, offset |-> 0, seen |-> {}, twice |-> FALSE,
                      calls |-> 0, more |-> TRUE, refused |-> FALSE, page |-> 0, pages |-> 0]

\* initializeLimits: the missing ones from get_status, or the defaults if it fails or
\* does not say. What get_status said is remembered in learned (history).
initializeLimits(m, answered, said) ==
    IF m.initialized THEN m
    ELSE IF \A k \in Kinds : m.max[k] # Unset THEN [m EXCEPT !.initialized = TRUE]
    ELSE LET told == {k \in Kinds : m.max[k] = Unset /\ answered /\ k \in said}
         IN  [max |-> [k \in Kinds |-> IF m.max[k] # Unset THEN m.max[k]
                                       ELSE IF k \in told THEN ServiceMax[k] ELSE DefaultMax[k]],
              initialized |-> TRUE, learned |-> told]

\* getPaginationInfo, for a limit above zero.
getPaginationInfo(offset, limit, total, more) ==
    [currentPage |-> (offset \div limit) + 1, totalPages |-> (total + limit - 1) \div limit,
     nextOffset |-> IF more THEN offset + limit ELSE -1,
     previousOffset |-> IF offset > 0 THEN (IF offset > limit THEN offset - limit ELSE 0) ELSE -1]

\* A mutant: the pages overlap by a row.
nextOffsetShort(p) == p.nextOffset - 1
nextOffsetOf(p) == p.nextOffset

\* get_proposals and the other lists, for the page at the walk's offset: a limit that is
\* too large is refused, otherwise the walk goes on at the next offset.
GetPage == \E answered \in BOOLEAN, said \in SUBSET Kinds :
    LET l == listing
        m == initializeLimits(msigLimits, answered, said)
        given == IF l.limit < ServiceMax[l.kind] THEN l.limit ELSE ServiceMax[l.kind]
        rows == (l.offset + 1)..(IF l.offset + given < l.rows THEN l.offset + given ELSE l.rows)
        more == l.offset + given < l.rows
        p == getPaginationInfo(l.offset, l.limit, l.rows, more)
    IN  /\ l.more /\ ~l.refused /\ l.calls < MaxMsigCalls
        /\ (msigLimits.initialized \/ (\A k \in Kinds : msigLimits.max[k] # Unset)) => answered /\ said = {}
        /\ ~answered => said = {}
        /\ msigLimits' = m
        /\ listing' = IF l.limit > m.max[l.kind] THEN [l EXCEPT !.refused = TRUE]
                      ELSE [l EXCEPT !.seen = @ \cup rows, !.twice = @ \/ rows \cap l.seen # {},
                                     !.offset = IF more THEN nextOffsetOf(p) ELSE @,
                                     !.calls = @ + 1, !.more = more,
                                     !.page = p.currentPage, !.pages = p.totalPages]

MsigsNext == GetPage

(* A walk that follows nextOffset gets every row once and says how many pages there *)
(* are, whenever the client knows what the service gives at most: a limit it only   *)
(* assumes (msigs.cpp:29) lets a larger page through, and the walk jumps over the   *)
(* rows the service left out.                                                       *)
PagesWhole ==
    LET l == listing
        honest == l.kind \in msigLimits.learned \/ msigLimits.max[l.kind] = Unset
                  \/ msigLimits.max[l.kind] <= ServiceMax[l.kind]
    IN  honest => /\ ~l.twice
                  /\ ~l.more /\ ~l.refused => l.seen = 1..l.rows /\ (l.rows > 0 => l.page = l.pages)
                  /\ l.calls > 0 /\ l.more /\ ~l.refused => l.seen = 1..l.offset /\ l.page < l.pages
=============================================================================
